---- MODULE Spec2Model ----
(***************************************************************************)
(* A model of the RLCD software renderer (src/simulator/rendering): the    *)
(* packed 1-bit Framebuffer, the scanline polygon fills, the rectangle and *)
(* outline primitives and the Bayer pattern test.                          *)
(*                                                                         *)
(* The source fixes the display at 400 x 300 pixels.  Every routine reads  *)
(* the geometry only through Framebuffer.WIDTH, HEIGHT and BYTES_PER_ROW,  *)
(* so the model keeps those three names and checks a reduced geometry      *)
(* (three bytes per row, so that a span has a partial first byte, full     *)
(* middle bytes and a partial last byte).  Bytes keep their 8 bits.        *)
(*                                                                         *)
(* A framebuffer value is a record [buf, exc]: buf is the bytearray        *)
(* (index 0 .. len-1, as in Python) and exc the exception that escaped the *)
(* call so far ("none" when it returned normally).  Once exc is set the    *)
(* rest of the call does nothing, as a Python exception unwinds it: every  *)
(* loop tests Raised at its head.                                          *)
(***************************************************************************)
EXTENDS Integers, Sequences, FiniteSets, TLC

VARIABLES
    buffer,   \* Framebuffer.buffer: [0 .. len-1 -> 0..255]
    prev,     \* the buffer as it was before the latest call
    raised,   \* exception that escaped the latest call, "none" if it returned
    calls,    \* the calls issued so far, oldest first
    ret,      \* value returned by the latest get_pixel
    pc,       \* "ready" before a pure function is applied, "done" after
    input,    \* arguments drawn for a pure function
    output    \* its result

vars == <<buffer, prev, raised, calls, ret, pc, input, output>>

(***************************************************************************)
(* Bounds of the model.                                                    *)
(***************************************************************************)
\* Framebuffer.WIDTH and Framebuffer.HEIGHT (400 and 300 in the source).
WIDTH == 24
HEIGHT == 10
\* Calls issued in one behaviour of Spec.
MaxCalls == 2
\* Vertices of a polygon handed to the polygon routines.
MaxVertices == 4
\* 4x4 blocks counted on either side of the origin.
MaxBlock == 3

\* Framebuffer.BYTES_PER_ROW: the bytes that hold WIDTH bits (50 for 400).
BYTES_PER_ROW == (WIDTH + 7) \div 8

(***************************************************************************)
(* Python integer operators on non-negative operands.                      *)
(***************************************************************************)
RECURSIVE BitOr(_, _)
BitOr(a, m) ==
    IF a = 0 THEN m
    ELSE IF m = 0 THEN a
    ELSE (IF a % 2 = 1 \/ m % 2 = 1 THEN 1 ELSE 0) + 2 * BitOr(a \div 2, m \div 2)

\* a & ~m
RECURSIVE BitAndNot(_, _)
BitAndNot(a, m) ==
    IF a = 0 THEN 0
    ELSE (IF a % 2 = 1 /\ m % 2 = 0 THEN 1 ELSE 0) + 2 * BitAndNot(a \div 2, m \div 2)

\* bool(a & (1 << k))
BitTest(a, k) == (a \div (2 ^ k)) % 2 = 1

(***************************************************************************)
(* bytearray: item assignment and in-place update.                         *)
(***************************************************************************)
BufLen(fb) == Cardinality(DOMAIN fb.buf)

\* A negative index counts from the end.
PyIndex(fb, i) == IF i < 0 THEN i + BufLen(fb) ELSE i

Raised(fb) == fb.exc # "none"

\* self.buffer[i] read; an index outside the buffer raises in Store below.
Load(fb, i) ==
    IF PyIndex(fb, i) \in DOMAIN fb.buf THEN fb.buf[PyIndex(fb, i)] ELSE 0

\* self.buffer[i] = v
Store(fb, i, v) ==
    IF Raised(fb) THEN fb
    ELSE IF PyIndex(fb, i) \notin DOMAIN fb.buf THEN [fb EXCEPT !.exc = "IndexError"]
    ELSE IF v \notin 0..255 THEN [fb EXCEPT !.exc = "ValueError"]
    ELSE [fb EXCEPT !.buf[PyIndex(fb, i)] = v]

\* self.buffer[i] |= mask   /   self.buffer[i] &= ~mask
ApplyMask(fb, i, mask, color) ==
    IF color THEN Store(fb, i, BitOr(Load(fb, i), mask))
    ELSE Store(fb, i, BitAndNot(Load(fb, i), mask))

\* for idx in range(lo, hi): self.buffer[idx] = value
RECURSIVE StoreRange(_, _, _, _)
StoreRange(fb, lo, hi, value) ==
    IF Raised(fb) \/ lo >= hi THEN fb
    ELSE StoreRange(Store(fb, lo, value), lo + 1, hi, value)

(***************************************************************************)
(* Framebuffer                                                             *)
(***************************************************************************)
NewBuffer == [i \in 0..(BYTES_PER_ROW * HEIGHT - 1) |-> 0]

FillValue(color) == IF color THEN 255 ELSE 0

clear(fb, color) == StoreRange(fb, 0, BufLen(fb), FillValue(color))

\* Mutant: the upper bounds tested with > instead of >=.
InBounds_inclusive(x, y) == ~(x < 0 \/ x > WIDTH \/ y < 0 \/ y > HEIGHT)

InBounds(x, y) == ~(x < 0 \/ x >= WIDTH \/ y < 0 \/ y >= HEIGHT)

ByteIndex(x, y) == y * BYTES_PER_ROW + (x \div 8)

\* Mutant: bit 0 taken as the leftmost pixel.
BitIndex_lsb(x) == x % 8

BitIndex(x) == 7 - (x % 8)

\* Mutant: the white branch missing, the bit is only ever set.
set_pixel_ink_only(fb, x, y, color) ==
    IF ~InBounds(x, y) THEN fb
    ELSE IF color THEN ApplyMask(fb, ByteIndex(x, y), 2 ^ BitIndex(x), TRUE)
    ELSE fb

set_pixel(fb, x, y, color) ==
    IF ~InBounds(x, y) THEN fb
    ELSE ApplyMask(fb, ByteIndex(x, y), 2 ^ BitIndex(x), color)

\* Returns [val, exc]: the value returned, or the exception raised instead.
get_pixel(fb, x, y) ==
    IF ~InBounds(x, y) THEN [val |-> FALSE, exc |-> "none"]
    ELSE IF PyIndex(fb, ByteIndex(x, y)) \notin DOMAIN fb.buf
         THEN [val |-> FALSE, exc |-> "IndexError"]
    ELSE [val |-> BitTest(fb.buf[PyIndex(fb, ByteIndex(x, y))], BitIndex(x)),
          exc |-> "none"]

ClampStart(x_start) == IF x_start < 0 THEN 0 ELSE x_start

\* Mutant: x_end not clamped to the width.
ClampEnd_none(x_end) == x_end

ClampEnd(x_end) == IF x_end > WIDTH THEN WIDTH ELSE x_end

\* for bit in range(start_bit, end_bit + 1): mask |= (1 << (7 - bit))
RECURSIVE SpanMask(_, _)
SpanMask(start_bit, end_bit) ==
    IF start_bit > end_bit THEN 0
    ELSE BitOr(2 ^ (7 - start_bit), SpanMask(start_bit + 1, end_bit))

\* Mutant: the first pixel of the span left out of the first byte's mask.
StartMask_short(start_bit) == 2 ^ (7 - start_bit) - 1

StartMask(start_bit) == 2 ^ (8 - start_bit) - 1

\* Mutant: the last pixel of the span left out of the last byte's mask.
EndMask_short(end_bit) == (255 * 2 ^ (8 - end_bit)) % 256

EndMask(end_bit) == (255 * 2 ^ (7 - end_bit)) % 256

fill_span(fb, y, x_start, x_end, color) ==
    IF y < 0 \/ y >= HEIGHT THEN fb
    ELSE
    LET xs == ClampStart(x_start)
        xe == ClampEnd(x_end)
    IN  IF xs >= xe THEN fb
        ELSE
        LET row_offset == y * BYTES_PER_ROW
            start_byte == xs \div 8
            end_byte   == (xe - 1) \div 8
            start_bit  == xs % 8
            end_bit    == (xe - 1) % 8
        IN  IF start_byte = end_byte
            THEN ApplyMask(fb, row_offset + start_byte,
                           SpanMask(start_bit, end_bit), color)
            ELSE
            LET fb1 == IF start_bit # 0
                       THEN ApplyMask(fb, row_offset + start_byte,
                                      StartMask(start_bit), color)
                       ELSE fb
                first_full_byte == IF start_bit # 0 THEN start_byte + 1
                                   ELSE start_byte
                fb2 == IF end_bit # 7
                       THEN ApplyMask(fb1, row_offset + end_byte,
                                      EndMask(end_bit), color)
                       ELSE fb1
                last_full_byte == IF end_bit # 7 THEN end_byte - 1 ELSE end_byte
            IN  IF first_full_byte <= last_full_byte
                THEN StoreRange(fb2, row_offset + first_full_byte,
                                row_offset + last_full_byte + 1, FillValue(color))
                ELSE fb2

(***************************************************************************)
(* Patterns                                                                *)
(***************************************************************************)
BAYER_4X4 == << <<0, 8, 2, 10>>,
                <<12, 4, 14, 6>>,
                <<3, 11, 1, 9>>,
                <<15, 7, 13, 5>> >>

SOLID_BLACK == 0
DENSE == 1
MEDIUM == 2
SPARSE == 3
SOLID_WHITE == 4

PATTERN_THRESHOLDS ==
    (SOLID_BLACK :> 16) @@ (DENSE :> 12) @@ (MEDIUM :> 8) @@ (SPARSE :> 4)
        @@ (SOLID_WHITE :> 0)

\* _PATTERN_THRESHOLDS.get(pattern, 0)
Threshold(pattern) ==
    IF pattern \in DOMAIN PATTERN_THRESHOLDS THEN PATTERN_THRESHOLDS[pattern] ELSE 0

\* BAYER_4X4[y & 3][x & 3]; & 3 of a negative Python int is its residue mod 4.
BayerValue(x, y) == BAYER_4X4[(y % 4) + 1][(x % 4) + 1]

\* Mutant: a Bayer value equal to the threshold counted as filled.
pattern_test_le(pattern, x, y) ==
    IF Threshold(pattern) <= 0 THEN FALSE
    ELSE IF Threshold(pattern) >= 16 THEN TRUE
    ELSE BayerValue(x, y) <= Threshold(pattern)

pattern_test(pattern, x, y) ==
    IF Threshold(pattern) <= 0 THEN FALSE
    ELSE IF Threshold(pattern) >= 16 THEN TRUE
    ELSE BayerValue(x, y) < Threshold(pattern)

(***************************************************************************)
(* Primitives.  A point is a pair <<x, y>>; a polygon a sequence of them.  *)
(***************************************************************************)
Abs(v) == IF v < 0 THEN 0 - v ELSE v

Max(a, b) == IF a >= b THEN a ELSE b

Min(a, b) == IF a <= b THEN a ELSE b

\* The while loop of draw_line from (x, y) with error term err.
\* dx, dy = abs(x1 - x0), abs(y1 - y0); sx, sy = 1 if x0 < x1 else -1, ...
LineDeltas(x0, y0, x1, y1) ==
    [dx |-> Abs(x1 - x0), dy |-> Abs(y1 - y0),
     sx |-> IF x0 < x1 THEN 1 ELSE 0 - 1,
     sy |-> IF y0 < y1 THEN 1 ELSE 0 - 1]

\* Mutant: the loop left as soon as the x coordinate is reached.
LineDone_x(x, y, p1) == x = p1[1]

\* if x == x1 and y == y1: break
LineDone(x, y, p1) == x = p1[1] /\ y = p1[2]

\* The rest of one loop iteration: e2 = 2 * err, then the two conditional steps.
LineAdvance(x, y, err, d) ==
    LET e2 == 2 * err
        stepx == e2 > 0 - d.dy
        stepy == e2 < d.dx
        err1 == IF stepx THEN err - d.dy ELSE err
        err2 == IF stepy THEN err1 + d.dx ELSE err1
    IN  [x |-> IF stepx THEN x + d.sx ELSE x,
         y |-> IF stepy THEN y + d.sy ELSE y,
         err |-> err2]

\* Mutant: the endpoint test made before the pixel is plotted.
RECURSIVE LineLoop_exclusive(_, _, _, _, _, _, _)
LineLoop_exclusive(fb, x, y, err, p1, d, color) ==
    LET fb1 == set_pixel(fb, x, y, color)
        n == LineAdvance(x, y, err, d)
    IN  IF Raised(fb) \/ LineDone(x, y, p1) THEN fb
        ELSE LineLoop_exclusive(fb1, n.x, n.y, n.err, p1, d, color)

\* while True: set_pixel(x, y); if at (x1, y1): break; advance
RECURSIVE LineLoop(_, _, _, _, _, _, _)
LineLoop(fb, x, y, err, p1, d, color) ==
    LET fb1 == set_pixel(fb, x, y, color)
        n == LineAdvance(x, y, err, d)
    IN  IF Raised(fb1) \/ LineDone(x, y, p1) THEN fb1
        ELSE LineLoop(fb1, n.x, n.y, n.err, p1, d, color)

draw_line(fb, x0, y0, x1, y1, color) ==
    LET d == LineDeltas(x0, y0, x1, y1)
    IN  LineLoop(fb, x0, y0, d.dx - d.dy, <<x1, y1>>, d, color)

\* Mutant: the last vertex not connected back to the first.
NextPoint_open(points, i) == points[IF i < Len(points) THEN i + 1 ELSE i]

\* points[(i + 1) % len(points)], with i counted from 1
NextPoint(points, i) == points[(i % Len(points)) + 1]

\* for i in range(len(points)): draw_line(points[i], points[(i + 1) % n])
RECURSIVE DrawEdges(_, _, _, _)
DrawEdges(fb, points, i, color) ==
    IF Raised(fb) \/ i > Len(points) THEN fb
    ELSE DrawEdges(draw_line(fb, points[i][1], points[i][2],
                             NextPoint(points, i)[1], NextPoint(points, i)[2], color),
                   points, i + 1, color)

draw_polygon(fb, points, color) ==
    IF Len(points) < 2 THEN fb
    ELSE DrawEdges(fb, points, 1, color)

\* Mutant: two points taken as enough to fill.
TooFewToFill_two(points) == Len(points) < 2

\* if len(points) < 3: return
TooFewToFill(points) == Len(points) < 3

MinY(points) ==
    CHOOSE m \in {points[i][2] : i \in DOMAIN points} :
        \A i \in DOMAIN points : m <= points[i][2]

MaxY(points) ==
    CHOOSE m \in {points[i][2] : i \in DOMAIN points} :
        \A i \in DOMAIN points : m >= points[i][2]

\* min_y = max(0, min_y); max_y = min(fb.HEIGHT - 1, max_y)
FirstRow(points) == IF MinY(points) < 0 THEN 0 ELSE MinY(points)

LastRow(points) == IF MaxY(points) > HEIGHT - 1 THEN HEIGHT - 1 ELSE MaxY(points)

\* Mutant: the edge test closed at both ends, y0 <= y <= y1.
Crosses_closed(y, y0, y1) == y0 <= y /\ y <= y1

\* if y0 <= y < y1
Crosses(y, y0, y1) == y0 <= y /\ y < y1

\* Mutant: the endpoints of a downward edge not exchanged, so that it is
\* never crossed.
EdgeHit_unswapped(p, q, y) ==
    IF p[2] = q[2] THEN <<>>
    ELSE IF Crosses(y, p[2], q[2])
         THEN << p[1] + ((y - p[2]) * (q[1] - p[1])) \div (q[2] - p[2]) >>
         ELSE <<>>

\* What one edge p -> q appends to the intersections of scanline y.
EdgeHit(p, q, y) ==
    IF p[2] = q[2] THEN <<>>
    ELSE LET lo == IF p[2] > q[2] THEN q ELSE p
             hi == IF p[2] > q[2] THEN p ELSE q
         IN  IF Crosses(y, lo[2], hi[2])
             THEN << lo[1] + ((y - lo[2]) * (hi[1] - lo[1])) \div (hi[2] - lo[2]) >>
             ELSE <<>>

\* The intersections of scanline y with edges i, i+1, ..., in edge order.
RECURSIVE Intersections(_, _, _)
Intersections(points, y, i) ==
    IF i > Len(points) THEN <<>>
    ELSE EdgeHit(points[i], NextPoint(points, i), y) \o Intersections(points, y, i + 1)

\* list.sort()
RECURSIVE Insert(_, _)
Insert(v, sorted) ==
    IF sorted = <<>> THEN <<v>>
    ELSE IF v <= Head(sorted) THEN <<v>> \o sorted
    ELSE <<Head(sorted)>> \o Insert(v, Tail(sorted))

RECURSIVE Sort(_)
Sort(xs) == IF xs = <<>> THEN <<>> ELSE Insert(Head(xs), Sort(Tail(xs)))

\* for i in range(0, len(intersections) - 1, 2): fill_span(y, x[i], x[i+1] + 1)
RECURSIVE FillPairs(_, _, _, _, _)
FillPairs(fb, y, xs, i, color) ==
    IF Raised(fb) \/ i > Len(xs) - 1 THEN fb
    ELSE FillPairs(fill_span(fb, y, xs[i], xs[i + 1] + 1, color), y, xs, i + 2, color)

\* for y in range(min_y, max_y + 1): ...
RECURSIVE FillRows(_, _, _, _, _)
FillRows(fb, points, y, max_y, color) ==
    IF Raised(fb) \/ y > max_y THEN fb
    ELSE FillRows(FillPairs(fb, y, Sort(Intersections(points, y, 1)), 1, color),
                  points, y + 1, max_y, color)

fill_polygon(fb, points, color) ==
    IF TooFewToFill(points) THEN fb
    ELSE FillRows(fb, points, FirstRow(points), LastRow(points), color)

RECURSIVE RectRows(_, _, _, _, _, _)
RectRows(fb, row, row_end, x, x_end, color) ==
    IF Raised(fb) \/ row >= row_end THEN fb
    ELSE RectRows(fill_span(fb, row, x, x_end, color), row + 1, row_end, x, x_end, color)

fill_rect(fb, x, y, w, h, color) ==
    IF w <= 0 \/ h <= 0 THEN fb
    ELSE RectRows(fb, y, y + h, x, x + w, color)

\* Mutant: radius zero returned from like a negative radius.
NoRadius_zero(r) == r <= 0

\* if r < 0: return
NoRadius(r) == r < 0

\* The 8 octant-symmetric set_pixel calls of one iteration, in source order.
Plot8(fb, cx, cy, x, y, color) ==
    LET f1 == set_pixel(fb, cx + x, cy + y, color)
        f2 == set_pixel(f1, cx - x, cy + y, color)
        f3 == set_pixel(f2, cx + x, cy - y, color)
        f4 == set_pixel(f3, cx - x, cy - y, color)
        f5 == set_pixel(f4, cx + y, cy + x, color)
        f6 == set_pixel(f5, cx - y, cy + x, color)
        f7 == set_pixel(f6, cx + y, cy - x, color)
    IN  set_pixel(f7, cx - y, cy - x, color)

\* Mutant: the span of row cy + x left out.
Span4_nolower(fb, cx, cy, x, y, color) ==
    LET f1 == fill_span(fb, cy + y, cx - x, cx + x + 1, color)
        f2 == fill_span(f1, cy - y, cx - x, cx + x + 1, color)
    IN  fill_span(f2, cy - x, cx - y, cx + y + 1, color)

\* The 4 fill_span calls of one iteration, in source order.
Span4(fb, cx, cy, x, y, color) ==
    LET f1 == fill_span(fb, cy + y, cx - x, cx + x + 1, color)
        f2 == fill_span(f1, cy - y, cx - x, cx + x + 1, color)
        f3 == fill_span(f2, cy + x, cx - y, cx + y + 1, color)
    IN  fill_span(f3, cy - x, cx - y, cx + y + 1, color)

\* y += 1; if d <= 0: d += 2*y + 1 else: x -= 1; d += 2*y - 2*x + 1
MidpointAdvance(x, y, d) ==
    IF d <= 0 THEN [x |-> x, y |-> y + 1, d |-> d + 2 * (y + 1) + 1]
    ELSE [x |-> x - 1, y |-> y + 1, d |-> d + 2 * (y + 1) - 2 * (x - 1) + 1]

\* while x >= y: plot; advance.  filled selects fill_circle's spans.
RECURSIVE CircleLoop(_, _, _, _, _, _, _, _)
CircleLoop(fb, cx, cy, x, y, d, color, filled) ==
    IF Raised(fb) \/ x < y THEN fb
    ELSE LET n == MidpointAdvance(x, y, d)
         IN  CircleLoop(IF filled THEN Span4(fb, cx, cy, x, y, color)
                        ELSE Plot8(fb, cx, cy, x, y, color),
                        cx, cy, n.x, n.y, n.d, color, filled)

draw_circle(fb, cx, cy, r, color) ==
    IF NoRadius(r) THEN fb
    ELSE IF r = 0 THEN set_pixel(fb, cx, cy, color)
    ELSE CircleLoop(fb, cx, cy, r, 0, 1 - r, color, FALSE)

fill_circle(fb, cx, cy, r, color) ==
    IF NoRadius(r) THEN fb
    ELSE IF r = 0 THEN set_pixel(fb, cx, cy, color)
    ELSE CircleLoop(fb, cx, cy, r, 0, 1 - r, color, TRUE)

\* Mutant: the span taken as half-open, range(x_start, x_end).
RunEnd_exclusive(x_end) == x_end

\* range(x_start, x_end + 1)
RunEnd(x_end) == x_end + 1

\* for x in range(x, stop): if pattern_test(pattern, x, y): set_pixel(x, y, True)
RECURSIVE PatternRun(_, _, _, _, _)
PatternRun(fb, y, x, stop, pattern) ==
    IF Raised(fb) \/ x >= stop THEN fb
    ELSE PatternRun(IF pattern_test(pattern, x, y) THEN set_pixel(fb, x, y, TRUE) ELSE fb,
                    y, x + 1, stop, pattern)

\* Mutant: only the first pair of intersections filled.
PatternPairs_first(fb, y, xs, i, pattern) ==
    IF Raised(fb) \/ Len(xs) < 2 THEN fb
    ELSE PatternRun(fb, y, xs[1], RunEnd(xs[2]), pattern)

RECURSIVE PatternPairs(_, _, _, _, _)
PatternPairs(fb, y, xs, i, pattern) ==
    IF Raised(fb) \/ i > Len(xs) - 1 THEN fb
    ELSE PatternPairs(PatternRun(fb, y, xs[i], RunEnd(xs[i + 1]), pattern),
                      y, xs, i + 2, pattern)

RECURSIVE PatternRows(_, _, _, _, _)
PatternRows(fb, points, y, max_y, pattern) ==
    IF Raised(fb) \/ y > max_y THEN fb
    ELSE PatternRows(PatternPairs(fb, y, Sort(Intersections(points, y, 1)), 1, pattern),
                     points, y + 1, max_y, pattern)

fill_polygon_pattern(fb, points, pattern) ==
    IF TooFewToFill(points) THEN fb
    ELSE IF pattern = SOLID_WHITE THEN fb
    ELSE PatternRows(fb, points, FirstRow(points), LastRow(points), pattern)

(***************************************************************************)
(* Vector font.  A character is a one-character string and a text a        *)
(* sequence of characters.  The products and quotients the source computes *)
(* in floating point are computed here exactly, in integers.               *)
(***************************************************************************)
\* The keys of GLYPHS; "deg" stands for the degree sign.
GlyphChars ==
    {"0", "1", "2", "3", "4", "5", "6", "7", "8", "9", ":", "-",
     ".", "/", "deg", "%", "A", "B", "C", "D", "E", "F", "G", "H",
     "I", "J", "K", "L", "M", "N", "O", "P", "Q", "R", "S", "T",
     "U", "V", "W", "X", "Y", "Z"}

\* GLYPHS[char]: the strokes of a glyph, each a polyline in the 0-100 unit square.
GLYPHS ==
    [char \in GlyphChars |->
        CASE char = "0" ->
               << << <<20, 10>>, <<80, 10>>, <<95, 25>>, <<95, 75>>, <<80, 90>>, <<20, 90>>, <<5, 75>>, <<5, 25>>, <<20, 10>> >> >>
          [] char = "1" ->
               << << <<30, 20>>, <<50, 10>>, <<50, 90>> >>,
                  << <<30, 90>>, <<70, 90>> >> >>
          [] char = "2" ->
               << << <<10, 25>>, <<25, 10>>, <<75, 10>>, <<90, 25>>, <<90, 40>>, <<10, 75>>, <<10, 90>>, <<90, 90>> >> >>
          [] char = "3" ->
               << << <<10, 10>>, <<80, 10>>, <<90, 20>>, <<90, 40>>, <<75, 50>> >>,
                  << <<45, 50>>, <<75, 50>> >>,
                  << <<75, 50>>, <<90, 60>>, <<90, 80>>, <<80, 90>>, <<10, 90>> >> >>
          [] char = "4" ->
               << << <<70, 10>>, <<70, 90>> >>,
                  << <<10, 60>>, <<90, 60>> >>,
                  << <<10, 60>>, <<70, 10>> >> >>
          [] char = "5" ->
               << << <<85, 10>>, <<15, 10>>, <<10, 15>>, <<10, 45>>, <<20, 50>>, <<75, 50>>, <<90, 60>>, <<90, 80>>, <<75, 90>>, <<10, 90>> >> >>
          [] char = "6" ->
               << << <<80, 10>>, <<25, 10>>, <<10, 25>>, <<10, 75>>, <<25, 90>>, <<75, 90>>, <<90, 75>>, <<90, 55>>, <<75, 45>>, <<10, 45>> >> >>
          [] char = "7" ->
               << << <<10, 10>>, <<90, 10>>, <<90, 20>>, <<45, 90>> >>,
                  << <<30, 50>>, <<70, 50>> >> >>
          [] char = "8" ->
               << << <<25, 10>>, <<75, 10>>, <<90, 20>>, <<90, 40>>, <<75, 50>>, <<25, 50>>, <<10, 40>>, <<10, 20>>, <<25, 10>> >>,
                  << <<25, 50>>, <<75, 50>>, <<90, 60>>, <<90, 80>>, <<75, 90>>, <<25, 90>>, <<10, 80>>, <<10, 60>>, <<25, 50>> >> >>
          [] char = "9" ->
               << << <<90, 55>>, <<25, 55>>, <<10, 45>>, <<10, 25>>, <<25, 10>>, <<75, 10>>, <<90, 25>>, <<90, 75>>, <<75, 90>>, <<20, 90>> >> >>
          [] char = ":" ->
               << << <<50, 25>>, <<58, 33>>, <<50, 41>>, <<42, 33>>, <<50, 25>> >>,
                  << <<50, 59>>, <<58, 67>>, <<50, 75>>, <<42, 67>>, <<50, 59>> >> >>
          [] char = "-" ->
               << << <<15, 50>>, <<85, 50>> >> >>
          [] char = "." ->
               << << <<50, 80>>, <<58, 85>>, <<50, 90>>, <<42, 85>>, <<50, 80>> >> >>
          [] char = "/" ->
               << << <<85, 10>>, <<15, 90>> >> >>
          [] char = "deg" ->
               << << <<30, 10>>, <<70, 10>>, <<85, 25>>, <<85, 40>>, <<70, 55>>, <<30, 55>>, <<15, 40>>, <<15, 25>>, <<30, 10>> >> >>
          [] char = "%" ->
               << << <<85, 10>>, <<15, 90>> >>,
                  << <<15, 10>>, <<35, 10>>, <<40, 15>>, <<40, 30>>, <<35, 35>>, <<15, 35>>, <<10, 30>>, <<10, 15>>, <<15, 10>> >>,
                  << <<65, 65>>, <<85, 65>>, <<90, 70>>, <<90, 85>>, <<85, 90>>, <<65, 90>>, <<60, 85>>, <<60, 70>>, <<65, 65>> >> >>
          [] char = "A" ->
               << << <<5, 90>>, <<5, 75>>, <<20, 10>>, <<80, 10>>, <<95, 75>>, <<95, 90>> >>,
                  << <<20, 60>>, <<80, 60>> >> >>
          [] char = "B" ->
               << << <<10, 10>>, <<10, 90>>, <<75, 90>>, <<90, 75>>, <<90, 55>>, <<75, 45>> >>,
                  << <<10, 45>>, <<75, 45>>, <<90, 35>>, <<90, 20>>, <<75, 10>>, <<10, 10>> >> >>
          [] char = "C" ->
               << << <<90, 25>>, <<75, 10>>, <<25, 10>>, <<10, 25>>, <<10, 75>>, <<25, 90>>, <<75, 90>>, <<90, 75>> >> >>
          [] char = "D" ->
               << << <<10, 10>>, <<10, 90>>, <<70, 90>>, <<90, 70>>, <<90, 30>>, <<70, 10>>, <<10, 10>> >> >>
          [] char = "E" ->
               << << <<90, 10>>, <<10, 10>>, <<10, 90>>, <<90, 90>> >>,
                  << <<10, 50>>, <<70, 50>> >> >>
          [] char = "F" ->
               << << <<90, 10>>, <<10, 10>>, <<10, 90>> >>,
                  << <<10, 50>>, <<70, 50>> >> >>
          [] char = "G" ->
               << << <<90, 25>>, <<75, 10>>, <<25, 10>>, <<10, 25>>, <<10, 75>>, <<25, 90>>, <<75, 90>>, <<90, 75>>, <<90, 50>>, <<50, 50>> >> >>
          [] char = "H" ->
               << << <<10, 10>>, <<10, 90>> >>,
                  << <<90, 10>>, <<90, 90>> >>,
                  << <<10, 50>>, <<90, 50>> >> >>
          [] char = "I" ->
               << << <<30, 10>>, <<70, 10>> >>,
                  << <<50, 10>>, <<50, 90>> >>,
                  << <<30, 90>>, <<70, 90>> >> >>
          [] char = "J" ->
               << << <<30, 10>>, <<90, 10>> >>,
                  << <<70, 10>>, <<70, 75>>, <<55, 90>>, <<25, 90>>, <<10, 75>> >> >>
          [] char = "K" ->
               << << <<10, 10>>, <<10, 90>> >>,
                  << <<90, 10>>, <<10, 50>>, <<90, 90>> >> >>
          [] char = "L" ->
               << << <<10, 10>>, <<10, 90>>, <<90, 90>> >> >>
          [] char = "M" ->
               << << <<5, 90>>, <<5, 20>>, <<15, 10>>, <<50, 45>>, <<85, 10>>, <<95, 20>>, <<95, 90>> >> >>
          [] char = "N" ->
               << << <<10, 90>>, <<10, 20>>, <<20, 10>>, <<90, 80>>, <<90, 10>> >> >>
          [] char = "O" ->
               << << <<20, 10>>, <<80, 10>>, <<95, 25>>, <<95, 75>>, <<80, 90>>, <<20, 90>>, <<5, 75>>, <<5, 25>>, <<20, 10>> >> >>
          [] char = "P" ->
               << << <<10, 90>>, <<10, 10>>, <<75, 10>>, <<90, 25>>, <<90, 40>>, <<75, 55>>, <<10, 55>> >> >>
          [] char = "Q" ->
               << << <<20, 10>>, <<80, 10>>, <<95, 25>>, <<95, 75>>, <<80, 90>>, <<20, 90>>, <<5, 75>>, <<5, 25>>, <<20, 10>> >>,
                  << <<60, 65>>, <<95, 95>> >> >>
          [] char = "R" ->
               << << <<10, 90>>, <<10, 10>>, <<75, 10>>, <<90, 25>>, <<90, 40>>, <<75, 55>>, <<10, 55>> >>,
                  << <<55, 55>>, <<90, 90>> >> >>
          [] char = "S" ->
               << << <<90, 25>>, <<75, 10>>, <<25, 10>>, <<10, 25>>, <<10, 40>>, <<25, 50>>, <<75, 50>>, <<90, 60>>, <<90, 75>>, <<75, 90>>, <<25, 90>>, <<10, 75>> >> >>
          [] char = "T" ->
               << << <<10, 10>>, <<90, 10>> >>,
                  << <<50, 10>>, <<50, 90>> >> >>
          [] char = "U" ->
               << << <<10, 10>>, <<10, 75>>, <<25, 90>>, <<75, 90>>, <<90, 75>>, <<90, 10>> >> >>
          [] char = "V" ->
               << << <<5, 10>>, <<50, 90>>, <<95, 10>> >> >>
          [] char = "W" ->
               << << <<5, 10>>, <<20, 90>>, <<50, 55>>, <<80, 90>>, <<95, 10>> >> >>
          [] char = "X" ->
               << << <<10, 10>>, <<90, 90>> >>,
                  << <<90, 10>>, <<10, 90>> >> >>
          [] char = "Y" ->
               << << <<10, 10>>, <<50, 50>>, <<90, 10>> >>,
                  << <<50, 50>>, <<50, 90>> >> >>
          [] char = "Z" ->
               << << <<10, 10>>, <<90, 10>>, <<10, 90>>, <<90, 90>> >> >>]

\* Mutant: the dash width divided before it is doubled.
DashWidth_divfirst(char_width) == (char_width \div 3) * 2

\* char_width * 2 // 3
DashWidth(char_width) == (char_width * 2) \div 3

get_char_width(char, char_width) ==
    IF char = ":" THEN char_width \div 2
    ELSE IF char = "." THEN char_width \div 3
    ELSE IF char = "-" THEN DashWidth(char_width)
    ELSE IF char = "/" THEN char_width \div 2
    ELSE IF char = "deg" THEN char_width \div 3
    ELSE IF char = "%" THEN char_width
    ELSE IF char = " " THEN char_width \div 2
    ELSE char_width

\* int(a / b) for b > 0: the quotient truncated toward zero.
TruncDiv(a, b) == IF a >= 0 THEN a \div b ELSE 0 - ((0 - a) \div b)

scale_point(x, y, dest_x, dest_y, width, height) ==
    <<dest_x + TruncDiv(x * width, 100), dest_y + TruncDiv(y * height, 100)>>

\* round(v) for v >= 0 with (2v)^2 = n2 / len2, counting up from k: the
\* nearest integer, a tie going to the even one.
RECURSIVE RoundHalfEven(_, _, _)
RoundHalfEven(n2, len2, k) ==
    IF (2 * k + 1) * (2 * k + 1) * len2 < n2 THEN RoundHalfEven(n2, len2, k + 1)
    ELSE IF (2 * k + 1) * (2 * k + 1) * len2 = n2 /\ k % 2 = 1 THEN k + 1
    ELSE k

\* int(round(perp * offset)) with perp = num / length, length^2 = len2 and
\* offset = i - (stroke_width - 1) / 2.0
PerpOffset(num, len2, i, stroke_width) ==
    LET n == num * (2 * i - (stroke_width - 1))
        r == RoundHalfEven(n * n, len2, 0)
    IN  IF n >= 0 THEN r ELSE 0 - r

\* for ox in range(-half, half + 1): for oy in range(-half, half + 1): set_pixel
RECURSIVE SquareLoop(_, _, _, _, _, _, _)
SquareLoop(fb, x0, y0, half, ox, oy, color) ==
    IF Raised(fb) \/ ox > half THEN fb
    ELSE IF oy > half THEN SquareLoop(fb, x0, y0, half, ox + 1, 0 - half, color)
    ELSE SquareLoop(set_pixel(fb, x0 + ox, y0 + oy, color), x0, y0, half, ox, oy + 1, color)

\* for i in range(stroke_width): draw_line offset by (ox, oy)
RECURSIVE ParallelLines(_, _, _, _, _, _, _, _)
ParallelLines(fb, x0, y0, x1, y1, i, stroke_width, color) ==
    IF Raised(fb) \/ i >= stroke_width THEN fb
    ELSE LET dx == x1 - x0
             dy == y1 - y0
             ox == PerpOffset(0 - dy, dx * dx + dy * dy, i, stroke_width)
             oy == PerpOffset(dx, dx * dx + dy * dy, i, stroke_width)
         IN  ParallelLines(draw_line(fb, x0 + ox, y0 + oy, x1 + ox, y1 + oy, color),
                           x0, y0, x1, y1, i + 1, stroke_width, color)

draw_thick_line(fb, x0, y0, x1, y1, stroke_width, color) ==
    IF stroke_width <= 1 THEN draw_line(fb, x0, y0, x1, y1, color)
    ELSE IF x0 = x1 /\ y0 = y1
         THEN SquareLoop(fb, x0, y0, stroke_width \div 2,
                         0 - (stroke_width \div 2), 0 - (stroke_width \div 2), color)
    ELSE ParallelLines(fb, x0, y0, x1, y1, 0, stroke_width, color)

\* for i in range(len(scaled_points) - 1): _draw_thick_line(point i, point i+1)
RECURSIVE SegmentLoop(_, _, _, _, _)
SegmentLoop(fb, pts, i, stroke_width, color) ==
    IF Raised(fb) \/ i > Len(pts) - 1 THEN fb
    ELSE SegmentLoop(draw_thick_line(fb, pts[i][1], pts[i][2], pts[i + 1][1], pts[i + 1][2],
                                     stroke_width, color),
                     pts, i + 1, stroke_width, color)

ScaledPoints(stroke, x, y, width, height) ==
    [k \in 1..Len(stroke) |-> scale_point(stroke[k][1], stroke[k][2], x, y, width, height)]

\* for stroke in strokes: if len(stroke) < 2: continue; scale; draw the segments
RECURSIVE StrokeLoop(_, _, _, _, _, _, _, _, _)
StrokeLoop(fb, strokes, s, x, y, width, height, stroke_width, color) ==
    IF Raised(fb) \/ s > Len(strokes) THEN fb
    ELSE StrokeLoop(IF Len(strokes[s]) < 2 THEN fb
                    ELSE SegmentLoop(fb, ScaledPoints(strokes[s], x, y, width, height), 1,
                                     stroke_width, color),
                    strokes, s + 1, x, y, width, height, stroke_width, color)

render_numeral(fb, char, x, y, width, height, stroke_width, color) ==
    IF char \notin GlyphChars THEN fb
    ELSE StrokeLoop(fb, GLYPHS[char], 1, x, y, width, height, stroke_width, color)

\* What one iteration of render_string adds to current_x, less the spacing.
AdvanceWidth(char, char_width) ==
    IF char \in GlyphChars THEN get_char_width(char, char_width)
    ELSE IF char = " " THEN get_char_width(char, char_width)
    ELSE char_width

\* for char in text: ...  st is [fb, x, boxes]: the framebuffer, current_x and,
\* for each character so far, current_x before it and the width it was given.
RECURSIVE RenderLoop(_, _, _, _, _, _, _, _, _)
RenderLoop(st, text, i, y, char_width, char_height, spacing, stroke_width, color) ==
    IF Raised(st.fb) \/ i > Len(text) THEN st
    ELSE LET char == text[i]
             actual_width == get_char_width(char, char_width)
             fb1 == IF char \in GlyphChars
                    THEN render_numeral(st.fb, char, st.x, y, actual_width, char_height,
                                        stroke_width, color)
                    ELSE st.fb
         IN  RenderLoop([fb |-> fb1,
                         x |-> st.x + AdvanceWidth(char, char_width) + spacing,
                         boxes |-> Append(st.boxes,
                                          [x |-> st.x,
                                           width |-> AdvanceWidth(char, char_width)])],
                        text, i + 1, y, char_width, char_height, spacing, stroke_width, color)

render_string(fb, text, x, y, char_width, char_height, spacing, stroke_width, color) ==
    RenderLoop([fb |-> fb, x |-> x, boxes |-> <<>>], text, 1, y, char_width, char_height,
               spacing, stroke_width, color)

\* Mutant: the spacing added after the last character too.
SpacingAfter_always(i, n, spacing) == spacing

\* if i < len(text) - 1: total_width += spacing   (i counted from 1 here)
SpacingAfter(i, n, spacing) == IF i < n THEN spacing ELSE 0

RECURSIVE WidthLoop(_, _, _, _, _)
WidthLoop(text, i, char_width, spacing, total_width) ==
    IF i > Len(text) THEN total_width
    ELSE WidthLoop(text, i + 1, char_width, spacing,
                   total_width + get_char_width(text[i], char_width)
                       + SpacingAfter(i, Len(text), spacing))

get_string_width(text, char_width, spacing) ==
    IF text = <<>> THEN 0
    ELSE WidthLoop(text, 1, char_width, spacing, 0)

(***************************************************************************)
(* Animation math.  A float is modelled by the rational [n, d] (d > 0) it  *)
(* holds; sums and products are exact, as they are in floating point for   *)
(* the small dyadic values the model draws.  A function that can raise     *)
(* returns its result together with the exception, like a framebuffer.     *)
(***************************************************************************)
Rat(n, d) == [n |-> n, d |-> d]

RatAdd(a, b) == Rat(a.n * b.d + b.n * a.d, a.d * b.d)

RatSub(a, b) == Rat(a.n * b.d - b.n * a.d, a.d * b.d)

RatMul(a, b) == Rat(a.n * b.n, a.d * b.d)

\* a / b for b # 0
RatDiv(a, b) == IF b.n > 0 THEN Rat(a.n * b.d, a.d * b.n)
                ELSE Rat(0 - a.n * b.d, 0 - a.d * b.n)

RatEq(a, b) == a.n * b.d = b.n * a.d

RatLt(a, b) == a.n * b.d < b.n * a.d

\* round(a): the nearest integer, a tie going to the even one.
PyRound(a) ==
    LET f == (2 * a.n + a.d) \div (2 * a.d)
    IN  IF (2 * a.n + a.d) % (2 * a.d) = 0 /\ f % 2 = 1 THEN f - 1 ELSE f

\* Mutant: the interpolation run from b towards a.
lerp_from_b(a, b, t) == RatAdd(b, RatMul(t, RatSub(a, b)))

\* a + t * (b - a)
lerp(a, b, t) == RatAdd(a, RatMul(t, RatSub(b, a)))

\* max(0.0, min(1.0, t))
Clamp01(t) == IF RatLt(t, Rat(0, 1)) THEN Rat(0, 1)
              ELSE IF RatLt(Rat(1, 1), t) THEN Rat(1, 1)
              ELSE t

\* 3 * t * t - 2 * t * t * t on the clamped t
ease_in_out(t) ==
    LET c == Clamp01(t)
    IN  RatSub(RatMul(Rat(3, 1), RatMul(c, c)),
               RatMul(Rat(2, 1), RatMul(c, RatMul(c, c))))

\* math.sin(turns * 2 * math.pi), at the whole quarter turns.
SinTurns(turns) ==
    CASE (4 * turns.n) % (4 * turns.d) = 0 -> Rat(0, 1)
      [] (4 * turns.n) % (4 * turns.d) = turns.d -> Rat(1, 1)
      [] (4 * turns.n) % (4 * turns.d) = 2 * turns.d -> Rat(0, 1)
      [] (4 * turns.n) % (4 * turns.d) = 3 * turns.d -> Rat(0 - 1, 1)

\* Returns [val, exc].
breathing_scale(t, min_scale, max_scale, period) ==
    IF RatEq(period, Rat(0, 1)) THEN [val |-> min_scale, exc |-> "none"]
    ELSE LET normalized == RatMul(RatAdd(SinTurns(RatDiv(t, period)), Rat(1, 1)), Rat(1, 2))
         IN  [val |-> RatAdd(min_scale, RatMul(normalized, RatSub(max_scale, min_scale))),
              exc |-> "none"]

\* Returns [val, exc]: t / period raises ZeroDivisionError for a zero period.
breathing_offset(t, amplitude, period) ==
    IF RatEq(period, Rat(0, 1)) THEN [val |-> Rat(0, 1), exc |-> "ZeroDivisionError"]
    ELSE [val |-> RatMul(amplitude, SinTurns(RatDiv(t, period))), exc |-> "none"]

\* easing(t) for the callables the model passes: [val, exc].  "failing" is a
\* callable that raises.
ApplyEasing(easing, t) ==
    CASE easing = "none" -> [val |-> t, exc |-> "none"]
      [] easing = "ease_in_out" -> [val |-> ease_in_out(t), exc |-> "none"]
      [] easing = "failing" -> [val |-> t, exc |-> "EasingError"]

\* Mutant: the length check left out; zip stops at the shorter list.
LengthMismatch_unchecked(points_a, points_b) == FALSE

\* if len(points_a) != len(points_b): raise ValueError
LengthMismatch(points_a, points_b) == Len(points_a) # Len(points_b)

\* float(int(round(x)))
RoundCoord(x) == Rat(PyRound(x), 1)

\* for (x_a, y_a), (x_b, y_b) in zip(points_a, points_b): result.append(...)
ZipLerp(points_a, points_b, t) ==
    [i \in 1..(IF Len(points_a) < Len(points_b) THEN Len(points_a) ELSE Len(points_b)) |->
        <<RoundCoord(lerp(points_a[i][1], points_b[i][1], t)),
          RoundCoord(lerp(points_a[i][2], points_b[i][2], t))>>]

\* Returns [returned, result, exc, a, b]: whether a list was returned, the
\* list, the exception raised instead, and the two argument lists afterwards.
transition_points(points_a, points_b, t, easing) ==
    IF LengthMismatch(points_a, points_b)
    THEN [returned |-> FALSE, result |-> <<>>, exc |-> "ValueError",
          a |-> points_a, b |-> points_b]
    ELSE IF Raised(ApplyEasing(easing, t))
    THEN [returned |-> FALSE, result |-> <<>>, exc |-> ApplyEasing(easing, t).exc,
          a |-> points_a, b |-> points_b]
    ELSE [returned |-> TRUE, result |-> ZipLerp(points_a, points_b, ApplyEasing(easing, t).val),
          exc |-> "none", a |-> points_a, b |-> points_b]

(***************************************************************************)
(* Bezier subdivision.  A coordinate is an integer count of 1/Unit pixels, *)
(* so that the halvings of MaxDepth levels of De Casteljau subdivision are *)
(* exact, as they are in floating point; a point is a pair of them.  The   *)
(* model follows the recursion MaxDepth levels deep and reports a call     *)
(* that needs more as "unfinished".                                        *)
(***************************************************************************)
\* Levels of subdivision followed.
MaxDepth == 2

Unit == 2 * 8 ^ MaxDepth

\* The largest s in lo..hi with s * s <= n.
RECURSIVE IsqrtIn(_, _, _)
IsqrtIn(n, lo, hi) ==
    IF lo >= hi THEN lo
    ELSE LET mid == (lo + hi + 1) \div 2
         IN  IF mid * mid <= n THEN IsqrtIn(n, mid, hi) ELSE IsqrtIn(n, lo, mid - 1)

\* floor(math.sqrt(n))
Isqrt(n) == IsqrtIn(n, 0, 46340)

\* Mutant: the comparison turned round, flat when the control point is at
\* least tolerance away from the chord.
WithinTolerance_beyond(cross, length_sq, tolerance) ==
    Abs(cross) >= tolerance * Isqrt(length_sq)

\* abs(cross) / math.sqrt(length_sq) <= tolerance, that is
\* cross^2 <= tolerance^2 * length_sq, decided with s = floor(sqrt(length_sq))
\* so that no product leaves the 32-bit integers.
WithinTolerance(cross, length_sq, tolerance) ==
    LET x == Abs(cross)
        s == Isqrt(length_sq)
        r == x - tolerance * s
    IN  IF tolerance < 0 THEN FALSE
        ELSE IF x <= tolerance * s THEN TRUE
        ELSE IF x >= tolerance * (s + 1) THEN FALSE
        ELSE 2 * tolerance * s * r + r * r <= tolerance * tolerance * (length_sq - s * s)

\* Mutant: a zero-length chord taken as flat whatever the control points.
DegenerateFlat_always(p0, c0, c1, tolerance) == tolerance >= 0

\* length_sq < 1e-10: max(d0, d1) <= tolerance for the distances of c0 and c1
\* from p0.
DegenerateFlat(p0, c0, c1, tolerance) ==
    /\ tolerance >= 0
    /\ (c0[1] - p0[1]) * (c0[1] - p0[1]) + (c0[2] - p0[2]) * (c0[2] - p0[2])
          <= tolerance * tolerance
    /\ (c1[1] - p0[1]) * (c1[1] - p0[1]) + (c1[2] - p0[2]) * (c1[2] - p0[2])
          <= tolerance * tolerance

\* _bezier_flatness(p0, c0, c1, p1) <= tolerance
FlatWithin(p0, c0, c1, p1, tolerance) ==
    LET dx == p1[1] - p0[1]
        dy == p1[2] - p0[2]
        length_sq == dx * dx + dy * dy
        cross0 == (c0[1] - p0[1]) * dy - (c0[2] - p0[2]) * dx
        cross1 == (c1[1] - p0[1]) * dy - (c1[2] - p0[2]) * dx
    IN  IF length_sq = 0 THEN DegenerateFlat(p0, c0, c1, tolerance)
        ELSE /\ WithinTolerance(cross0, length_sq, tolerance)
             /\ WithinTolerance(cross1, length_sq, tolerance)

\* ((a[0] + b[0]) / 2, (a[1] + b[1]) / 2)
Midpoint(a, b) == <<(a[1] + b[1]) \div 2, (a[2] + b[2]) \div 2>>

\* (int(round(p[0])), int(round(p[1]))), in pixels
RoundPoint(p) == <<PyRound(Rat(p[1], Unit)), PyRound(Rat(p[2], Unit))>>

\* acc is [points, exc]: the list being appended to and the way the call
\* has ended so far.
RECURSIVE subdivide_bezier_recursive(_, _, _, _, _, _, _)
subdivide_bezier_recursive(p0, c0, c1, p1, tolerance, acc, depth) ==
    IF Raised(acc) THEN acc
    ELSE IF FlatWithin(p0, c0, c1, p1, tolerance)
    THEN [acc EXCEPT !.points = Append(acc.points, RoundPoint(p1))]
    ELSE IF depth >= MaxDepth THEN [acc EXCEPT !.exc = "unfinished"]
    ELSE LET q0 == Midpoint(p0, c0)
             q1 == Midpoint(c0, c1)
             q2 == Midpoint(c1, p1)
             r0 == Midpoint(q0, q1)
             r1 == Midpoint(q1, q2)
             mid == Midpoint(r0, r1)
             left == subdivide_bezier_recursive(p0, q0, r0, mid, tolerance, acc, depth + 1)
         IN  subdivide_bezier_recursive(mid, r1, q2, p1, tolerance, left, depth + 1)

\* Returns [points, exc].
subdivide_bezier(p0, c0, c1, p1, tolerance) ==
    subdivide_bezier_recursive(p0, c0, c1, p1, tolerance,
                               [points |-> <<RoundPoint(p0)>>, exc |-> "none"], 0)

(***************************************************************************)
(* Texture-ball strokes.  Through-points and control points are pairs of   *)
(* integer counts of 1/Unit pixel, a curve parameter t is step / num_steps *)
(* and a point of the curve is [x, y, d], standing for (x / d, y / d); all *)
(* sums, products and quotients are exact.  Lengths and unit vectors are   *)
(* computed for vectors along a row or a column of the display, where the  *)
(* square roots are whole numbers: the paths of the model run along one    *)
(* row or one column, forwards and backwards.                              *)
(***************************************************************************)
Sign(v) == IF v > 0 THEN 1 ELSE IF v < 0 THEN 0 - 1 ELSE 0

\* math.sqrt(dx * dx + dy * dy)
Length(dx, dy) == Isqrt(dx * dx + dy * dy)

\* The neighbours the tangent at points[i] runs between.
TangentEnds(points, i) ==
    LET n == Len(points)
    IN  IF i = 1 THEN <<points[1], points[2]>>
        ELSE IF i = n THEN <<points[n - 1], points[n]>>
        ELSE <<points[i - 1], points[i + 1]>>

\* smoothness * dist * 0.5, smoothness being the rational [n, d]
HandleLen(smoothness, dist) == (smoothness.n * dist) \div (2 * smoothness.d)

\* The pair (handle_in, handle_out) of points[i].
HandlesAt(points, i, smoothness) ==
    LET n == Len(points)
        ends == TangentEnds(points, i)
        dx == ends[2][1] - ends[1][1]
        dy == ends[2][2] - ends[1][2]
        length == Length(dx, dy)
        curr == points[i]
        dist_prev == IF i = 1 THEN 0
                     ELSE Length(curr[1] - points[i - 1][1], curr[2] - points[i - 1][2])
        dist_next == IF i = n THEN 0
                     ELSE Length(points[i + 1][1] - curr[1], points[i + 1][2] - curr[2])
        handle_in_len == HandleLen(smoothness, dist_prev)
        handle_out_len == HandleLen(smoothness, dist_next)
    IN  IF length = 0 THEN << <<0, 0>>, <<0, 0>> >>
        ELSE << <<(0 - dx * handle_in_len) \div length, (0 - dy * handle_in_len) \div length>>,
                <<(dx * handle_out_len) \div length, (dy * handle_out_len) \div length>> >>

auto_tangent(points, smoothness) ==
    IF Len(points) = 0 THEN <<>>
    ELSE IF Len(points) = 1 THEN << << <<0, 0>>, <<0, 0>> >> >>
    ELSE [i \in 1..Len(points) |-> HandlesAt(points, i, smoothness)]

\* lerp(a, b, t) with t = k / m: the numerators of a + t * (b - a) over m
\* times the denominator of a and b.
LerpAt(a, b, k, m) == <<a[1] * m + k * (b[1] - a[1]), a[2] * m + k * (b[2] - a[2])>>

\* De Casteljau at t = k / m.
cubic_bezier(p0, p1, p2, p3, k, m) ==
    LET q0 == LerpAt(p0, p1, k, m)
        q1 == LerpAt(p1, p2, k, m)
        q2 == LerpAt(p2, p3, k, m)
        r0 == LerpAt(q0, q1, k, m)
        r1 == LerpAt(q1, q2, k, m)
        at == LerpAt(r0, r1, k, m)
    IN  [x |-> at[1], y |-> at[2], d |-> Unit * m * m * m]

\* The tangent at t = k / m, times Unit * m * m.
cubic_bezier_derivative(p0, p1, p2, p3, k, m) ==
    LET d0 == <<3 * (p1[1] - p0[1]), 3 * (p1[2] - p0[2])>>
        d1 == <<3 * (p2[1] - p1[1]), 3 * (p2[2] - p1[2])>>
        d2 == <<3 * (p3[1] - p2[1]), 3 * (p3[2] - p2[2])>>
        q0 == LerpAt(d0, d1, k, m)
        q1 == LerpAt(d1, d2, k, m)
    IN  LerpAt(q0, q1, k, m)

\* (cos_theta, sin_theta) of a tangent along an axis; a tangent of length 0
\* gives the identity rotation.
Rotation(tangent) ==
    IF tangent[1] = 0 /\ tangent[2] = 0 THEN <<1, 0>>
    ELSE <<Sign(tangent[1]), Sign(tangent[2])>>

\* Mutant: the stamp erases where the texture is set.
StampColor_erase == FALSE

\* fb.set_pixel(px, py, True)
StampColor == TRUE

\* The texture pixel (tx, ty), counted from 0, stamped when it is set.
SplatPixel(fb, pos, texture, rot, tx, ty) ==
    LET w == Len(texture[1])
        h == Len(texture)
        dx2 == 2 * tx - w + 1
        dy2 == 2 * ty - h + 1
        rx2 == dx2 * rot[1] - dy2 * rot[2]
        ry2 == dx2 * rot[2] + dy2 * rot[1]
        px == PyRound(Rat(2 * pos.x + rx2 * pos.d, 2 * pos.d))
        py == PyRound(Rat(2 * pos.y + ry2 * pos.d, 2 * pos.d))
    IN  IF texture[ty + 1][tx + 1] THEN set_pixel(fb, px, py, StampColor) ELSE fb

\* for ty in range(h): for tx in range(len(row))
RECURSIVE SplatLoop(_, _, _, _, _, _)
SplatLoop(fb, pos, texture, rot, tx, ty) ==
    IF Raised(fb) \/ ty >= Len(texture) THEN fb
    ELSE IF tx >= Len(texture[ty + 1]) THEN SplatLoop(fb, pos, texture, rot, 0, ty + 1)
    ELSE SplatLoop(SplatPixel(fb, pos, texture, rot, tx, ty), pos, texture, rot, tx + 1, ty)

splat_texture(fb, pos, texture, rot) ==
    IF Len(texture) = 0 THEN fb ELSE SplatLoop(fb, pos, texture, rot, 0, 0)

\* The length of the polyline through the whole-pixel points.
RECURSIVE ArcLength(_, _)
ArcLength(subdivided, j) ==
    IF j > Len(subdivided) THEN 0
    ELSE Length(subdivided[j][1] - subdivided[j - 1][1],
                subdivided[j][2] - subdivided[j - 1][2]) + ArcLength(subdivided, j + 1)

\* Mutant: the quotient rounded to the nearest integer.
NumSteps_round(arc_length, spacing) ==
    Max(1, PyRound(Rat(arc_length * Unit, spacing)))

\* max(1, int(arc_length / spacing)), arc_length in pixels and spacing in
\* 1/Unit pixel
NumSteps(arc_length, spacing) == Max(1, (arc_length * Unit) \div spacing)

\* if i > 0 and step == 0: continue (segments are counted from 1 here)
SkipStep(i, step) == i > 1 /\ step = 0

\* st is [fb, stamps]: the framebuffer and the stamps made so far, each
\* recorded with its segment, step, step count and position.
RECURSIVE StepLoop(_, _, _, _, _, _, _, _, _)
StepLoop(st, i, p0, p1, p2, p3, step, num_steps, texture) ==
    IF Raised(st.fb) \/ step > num_steps THEN st
    ELSE IF SkipStep(i, step)
    THEN StepLoop(st, i, p0, p1, p2, p3, step + 1, num_steps, texture)
    ELSE LET pos == cubic_bezier(p0, p1, p2, p3, step, num_steps)
             tangent == cubic_bezier_derivative(p0, p1, p2, p3, step, num_steps)
             stamped == [fb |-> splat_texture(st.fb, pos, texture, Rotation(tangent)),
                         stamps |-> Append(st.stamps,
                                           [seg |-> i, step |-> step,
                                            num_steps |-> num_steps, pos |-> pos])]
         IN  StepLoop(stamped, i, p0, p1, p2, p3, step + 1, num_steps, texture)

\* for i in range(len(points) - 1)
RECURSIVE SegmentsLoop(_, _, _, _, _, _)
SegmentsLoop(st, points, handles, i, texture, spacing) ==
    IF Raised(st.fb) \/ i >= Len(points) THEN st
    ELSE LET p0 == points[i]
             p3 == points[i + 1]
             h_out == handles[i][2]
             h_in == handles[i + 1][1]
             p1 == <<p0[1] + h_out[1], p0[2] + h_out[2]>>
             p2 == <<p3[1] + h_in[1], p3[2] + h_in[2]>>
             subdivided == subdivide_bezier(p0, p1, p2, p3, spacing)
             arc_length == ArcLength(subdivided.points, 2)
         IN  IF subdivided.exc # "none"
             THEN [st EXCEPT !.fb.exc = subdivided.exc]
             ELSE IF 10 * arc_length < 1
             THEN SegmentsLoop(st, points, handles, i + 1, texture, spacing)
             ELSE SegmentsLoop(StepLoop(st, i, p0, p1, p2, p3, 0,
                                        NumSteps(arc_length, spacing), texture),
                               points, handles, i + 1, texture, spacing)

\* Returns [fb, stamps].
stroke_bezier_texture_ball(fb, points, smoothness, ball_texture, spacing) ==
    LET st == [fb |-> fb, stamps |-> <<>>]
    IN  IF Len(points) < 2
        THEN IF Len(points) = 1
             THEN [fb |-> splat_texture(fb, [x |-> points[1][1], y |-> points[1][2], d |-> Unit],
                                        ball_texture, <<1, 0>>),
                   stamps |-> <<>>]
             ELSE st
        ELSE SegmentsLoop(st, points, auto_tangent(points, smoothness), 1,
                          ball_texture, spacing)

(***************************************************************************)
(* ToolkitDemo (src/simulator/demo.py).  A demo value is the record        *)
(* [mode, animation_enabled, frame] of the attributes the methods assign;  *)
(* the five demo screens read them and assign none of them, and the pixels *)
(* they draw are not part of this state.                                   *)
(***************************************************************************)
MODE_NAMES == <<"Patterns", "Bezier Curves", "Numerals", "Clock Sketch", "Typography">>

\* ToolkitDemo.__init__
NewDemo == [mode |-> 0, animation_enabled |-> TRUE, frame |-> 0]

next_mode(demo) == [demo EXCEPT !.mode = (demo.mode + 1) % 5]

\* Mutant: the upper end of the range let in.
ModeInRange_inclusive(mode) == 0 <= mode /\ mode <= 5

\* if 0 <= mode < 5
ModeInRange(mode) == 0 <= mode /\ mode < 5

set_mode(demo, mode) == IF ModeInRange(mode) THEN [demo EXCEPT !.mode = mode] ELSE demo

toggle_animation(demo) == [demo EXCEPT !.animation_enabled = ~demo.animation_enabled]

\* self.frame += 1; the screen of the mode is drawn and then the label,
\* which reads MODE_NAMES[self.mode].
draw(demo) == [demo EXCEPT !.frame = demo.frame + 1]

\* The exception draw ends with: the label indexes MODE_NAMES by the mode.
DrawRaises(demo) ==
    IF demo.mode \in 0..(Len(MODE_NAMES) - 1) \/ (0 - demo.mode) \in 1..Len(MODE_NAMES)
    THEN "none" ELSE "IndexError"

(***************************************************************************)
(* Calls on one Framebuffer.                                               *)
(***************************************************************************)
Fb(buf) == [buf |-> buf, exc |-> "none"]

Call(op, x, y, x_end, color) ==
    [op |-> op, x |-> x, y |-> y, x_end |-> x_end, color |-> color]

LastCall == calls[Len(calls)]

Pure == <<pc, input, output>>

\* The caller gets the mutated buffer and whatever escaped the call.
Returns(fb, call) ==
    /\ buffer' = fb.buf
    /\ raised' = fb.exc
    /\ prev' = buffer
    /\ calls' = Append(calls, call)

CallClear(color) ==
    /\ raised = "none"
    /\ Returns(clear(Fb(buffer), color), Call("clear", 0, 0, 0, color))
    /\ UNCHANGED <<ret, Pure>>

CallSetPixel(x, y, color) ==
    /\ raised = "none"
    /\ Returns(set_pixel(Fb(buffer), x, y, color), Call("set_pixel", x, y, 0, color))
    /\ UNCHANGED <<ret, Pure>>

CallGetPixel(x, y) ==
    /\ raised = "none"
    /\ Returns([buf |-> buffer, exc |-> get_pixel(Fb(buffer), x, y).exc],
               Call("get_pixel", x, y, 0, FALSE))
    /\ ret' = get_pixel(Fb(buffer), x, y).val
    /\ UNCHANGED Pure

CallFillSpan(y, x_start, x_end, color) ==
    /\ raised = "none"
    /\ Returns(fill_span(Fb(buffer), y, x_start, x_end, color),
               Call("fill_span", x_start, y, x_end, color))
    /\ UNCHANGED <<ret, Pure>>

(***************************************************************************)
(* Spec: any sequence of up to MaxCalls calls on a new Framebuffer.        *)
(***************************************************************************)
SeqPixelXs == {0 - 1, 12, WIDTH - 1}
SeqPixelYs == {0, HEIGHT - 1, HEIGHT}
SeqSpans == {<<0 - 2, 5>>, <<3, 13>>, <<10, WIDTH + 3>>, <<12, 3>>, <<8, 16>>}
SeqSpanYs == {0 - 1, 0, HEIGHT - 1}

Init ==
    /\ buffer = NewBuffer
    /\ prev = NewBuffer
    /\ raised = "none"
    /\ calls = <<>>
    /\ ret = FALSE
    /\ pc = "idle"
    /\ input = <<>>
    /\ output = 0

SeqClear == Len(calls) < MaxCalls /\ \E color \in BOOLEAN : CallClear(color)

SeqSetPixel ==
    /\ Len(calls) < MaxCalls
    /\ \E x \in SeqPixelXs, y \in SeqPixelYs, color \in BOOLEAN :
          CallSetPixel(x, y, color)

SeqFillSpan ==
    /\ Len(calls) < MaxCalls
    /\ \E s \in SeqSpans, y \in SeqSpanYs, color \in BOOLEAN :
          CallFillSpan(y, s[1], s[2], color)

Next == SeqClear \/ SeqSetPixel \/ SeqFillSpan

Spec == Init /\ [][Next]_vars

(***************************************************************************)
(* SpecCall: one call with arguments drawn from the whole argument range,  *)
(* on a buffer with arbitrary prior contents; a set_pixel may be followed  *)
(* by a get_pixel at or next to the pixel it wrote.                        *)
(***************************************************************************)
ArgXs == (0 - 2)..(WIDTH + 2)
ArgYs == {0 - 1, 0, 1, HEIGHT - 1, HEIGHT}
StartFills == {0, 255, 165}

InitCall ==
    /\ \E fill \in StartFills :
          buffer = [i \in 0..(BYTES_PER_ROW * HEIGHT - 1) |-> fill]
    /\ prev = buffer
    /\ raised = "none"
    /\ calls = <<>>
    /\ ret = FALSE
    /\ pc = "idle"
    /\ input = <<>>
    /\ output = 0

OneClear == calls = <<>> /\ \E color \in BOOLEAN : CallClear(color)

OneSetPixel ==
    /\ calls = <<>>
    /\ \E x \in ArgXs, y \in ArgYs, color \in BOOLEAN : CallSetPixel(x, y, color)

OneGetPixel ==
    /\ calls = <<>>
    /\ \E x \in ArgXs, y \in ArgYs : CallGetPixel(x, y)

OneFillSpan ==
    /\ calls = <<>>
    /\ \E y \in ArgYs, x_start \in ArgXs, x_end \in ArgXs, color \in BOOLEAN :
          CallFillSpan(y, x_start, x_end, color)

ThenGetPixel ==
    /\ Len(calls) = 1
    /\ LastCall.op = "set_pixel"
    /\ \E dx \in {0 - 1, 0, 1}, dy \in {0 - 1, 0, 1} :
          CallGetPixel(LastCall.x + dx, LastCall.y + dy)

NextCall == OneClear \/ OneSetPixel \/ OneGetPixel \/ OneFillSpan \/ ThenGetPixel

SpecCall == InitCall /\ [][NextCall]_vars

(***************************************************************************)
(* SpecPoly: one polygon or rectangle call on a white or a black buffer.   *)
(* Polygons are all vertex lists of up to MaxVertices points over a few    *)
(* vertices inside and outside the display, and the axis-aligned           *)
(* rectangles over a grid of in-bounds corners.                            *)
(***************************************************************************)
Vertices == {<<0, 0>>, <<8, 0>>, <<8, 8>>, <<0, 8>>, <<0 - 2, 0 - 3>>,
             <<13, HEIGHT + 1>>}

RectXs == {0, 3, 8, WIDTH - 1}
RectYs == {0, 4, 8, HEIGHT - 1}

Rect(x0, y0, x1, y1) == << <<x0, y0>>, <<x1, y0>>, <<x1, y1>>, <<x0, y1>> >>

Rects ==
    {Rect(x0, y0, x1, y1) : <<x0, y0, x1, y1>> \in
        {r \in RectXs \X RectYs \X RectXs \X RectYs : r[1] < r[3] /\ r[2] < r[4]}}

Polygons == UNION {[1..n -> Vertices] : n \in 0..MaxVertices} \cup Rects

Patterns == {SOLID_BLACK, DENSE, MEDIUM, SPARSE, SOLID_WHITE}

RectArgs == {0 - 1, 0, 2}

PolyCall(op, points, color, pattern) ==
    [op |-> op, points |-> points, color |-> color, pattern |-> pattern,
     x |-> 0, y |-> 0, w |-> 0, h |-> 0]

RectCall(x, y, w, h, color) ==
    [op |-> "fill_rect", points |-> <<>>, color |-> color, pattern |-> SOLID_BLACK,
     x |-> x, y |-> y, w |-> w, h |-> h]

InitPoly ==
    /\ \E fill \in {0, 255} :
          buffer = [i \in 0..(BYTES_PER_ROW * HEIGHT - 1) |-> fill]
    /\ prev = buffer
    /\ raised = "none"
    /\ calls = <<>>
    /\ ret = FALSE
    /\ pc = "idle"
    /\ input = <<>>
    /\ output = 0

CallDrawPolygon ==
    /\ calls = <<>>
    /\ \E points \in Polygons, color \in BOOLEAN :
          Returns(draw_polygon(Fb(buffer), points, color),
                  PolyCall("draw_polygon", points, color, SOLID_BLACK))
    /\ UNCHANGED <<ret, Pure>>

CallFillPolygon ==
    /\ calls = <<>>
    /\ \E points \in Polygons, color \in BOOLEAN :
          Returns(fill_polygon(Fb(buffer), points, color),
                  PolyCall("fill_polygon", points, color, SOLID_BLACK))
    /\ UNCHANGED <<ret, Pure>>

CallFillPolygonPattern ==
    /\ calls = <<>>
    /\ \E points \in Polygons, pattern \in Patterns :
          Returns(fill_polygon_pattern(Fb(buffer), points, pattern),
                  PolyCall("fill_polygon_pattern", points, TRUE, pattern))
    /\ UNCHANGED <<ret, Pure>>

CallFillRect ==
    /\ calls = <<>>
    /\ \E x \in RectArgs, y \in RectArgs, w \in RectArgs, h \in RectArgs,
          color \in BOOLEAN :
          Returns(fill_rect(Fb(buffer), x, y, w, h, color), RectCall(x, y, w, h, color))
    /\ UNCHANGED <<ret, Pure>>

NextPoly == CallDrawPolygon \/ CallFillPolygon \/ CallFillPolygonPattern \/ CallFillRect

SpecPoly == InitPoly /\ [][NextPoly]_vars

(***************************************************************************)
(* SpecPattern: pattern_test counted over one 4x4-aligned block.           *)
(***************************************************************************)
\* sum(pattern_test(level, x, y) for the cells of block (i, j) from cell n on)
RECURSIVE CountBlock(_, _, _, _)
CountBlock(level, i, j, n) ==
    IF n >= 16 THEN 0
    ELSE (IF pattern_test(level, 4 * i + (n % 4), 4 * j + (n \div 4)) THEN 1 ELSE 0)
         + CountBlock(level, i, j, n + 1)

InitPattern ==
    /\ buffer = NewBuffer
    /\ prev = NewBuffer
    /\ raised = "none"
    /\ calls = <<>>
    /\ ret = FALSE
    /\ pc = "ready"
    /\ input \in [level : Patterns \cup {0 - 1, 5},
                  i : (0 - MaxBlock)..MaxBlock, j : (0 - MaxBlock)..MaxBlock]
    /\ output = 0

CountPattern ==
    /\ pc = "ready"
    /\ pc' = "done"
    /\ output' = CountBlock(input.level, input.i, input.j, 0)
    /\ UNCHANGED <<buffer, prev, raised, calls, ret, input>>

NextPattern == CountPattern

SpecPattern == InitPattern /\ [][NextPattern]_vars

(***************************************************************************)
(* SpecCircle: one draw_circle or fill_circle call on a white or a black   *)
(* buffer, with centres inside and outside the display and radii from      *)
(* negative to wider than the display is high.                             *)
(***************************************************************************)
MaxRadius == 8

CircleXs == {0 - 1, 0, 5, 12, WIDTH - 1}
CircleYs == {0 - 1, 0, 4, HEIGHT - 1}
Radii == (0 - 2)..MaxRadius

CircleCall(op, cx, cy, r, color) ==
    [op |-> op, cx |-> cx, cy |-> cy, r |-> r, color |-> color]

InitCircle ==
    /\ \E fill \in {0, 255} : buffer = [i \in DOMAIN NewBuffer |-> fill]
    /\ prev = buffer
    /\ raised = "none"
    /\ calls = <<>>
    /\ ret = FALSE
    /\ pc = "idle"
    /\ input = <<>>
    /\ output = 0

CallDrawCircle ==
    /\ calls = <<>>
    /\ \E cx \in CircleXs, cy \in CircleYs, r \in Radii, color \in BOOLEAN :
          Returns(draw_circle(Fb(buffer), cx, cy, r, color),
                  CircleCall("draw_circle", cx, cy, r, color))
    /\ UNCHANGED <<ret, Pure>>

CallFillCircle ==
    /\ calls = <<>>
    /\ \E cx \in CircleXs, cy \in CircleYs, r \in Radii, color \in BOOLEAN :
          Returns(fill_circle(Fb(buffer), cx, cy, r, color),
                  CircleCall("fill_circle", cx, cy, r, color))
    /\ UNCHANGED <<ret, Pure>>

NextCircle == CallDrawCircle \/ CallFillCircle

SpecCircle == InitCircle /\ [][NextCircle]_vars

(***************************************************************************)
(* SpecLine: one draw_line call run one loop iteration at a time, or one   *)
(* draw_polygon call on two points, on a white or a black buffer.  The     *)
(* endpoints range over a grid that reaches outside the display, so every  *)
(* octant, the axes, the diagonals and the single point occur.  While the  *)
(* loop runs, output holds the locals x, y, err, the number of steps taken *)
(* and the points plotted so far.                                          *)
(***************************************************************************)
MaxLineX == 5
MaxLineY == 4

LineXs == (0 - 1)..MaxLineX
LineYs == (0 - 1)..MaxLineY

LineCall(op, x0, y0, x1, y1, color) ==
    [op |-> op, x0 |-> x0, y0 |-> y0, x1 |-> x1, y1 |-> y1, color |-> color]

InitLine ==
    /\ \E fill \in {0, 255} : buffer = [i \in DOMAIN NewBuffer |-> fill]
    /\ prev = buffer
    /\ raised = "none"
    /\ calls = <<>>
    /\ ret = FALSE
    /\ pc = "idle"
    /\ input = <<>>
    /\ output = 0

\* draw_line up to the loop: the deltas, the step directions and err.
BeginLine ==
    /\ pc = "idle"
    /\ \E x0 \in LineXs, y0 \in LineYs, x1 \in LineXs, y1 \in LineYs, color \in BOOLEAN :
          /\ calls' = <<LineCall("draw_line", x0, y0, x1, y1, color)>>
          /\ input' = LineDeltas(x0, y0, x1, y1)
          /\ output' = [x |-> x0, y |-> y0,
                        err |-> Abs(x1 - x0) - Abs(y1 - y0),
                        steps |-> 0, plotted |-> <<>>]
    /\ pc' = "loop"
    /\ prev' = buffer
    /\ UNCHANGED <<buffer, raised, ret>>

\* One iteration of the while loop.
StepLine ==
    /\ pc = "loop"
    /\ LET fb1 == set_pixel(Fb(buffer), output.x, output.y, LastCall.color)
           n == LineAdvance(output.x, output.y, output.err, input)
           plotted == Append(output.plotted, <<output.x, output.y>>)
       IN  /\ buffer' = fb1.buf
           /\ raised' = fb1.exc
           /\ IF Raised(fb1) \/ LineDone(output.x, output.y, <<LastCall.x1, LastCall.y1>>)
              THEN /\ pc' = "done"
                   /\ output' = [output EXCEPT !.plotted = plotted]
              ELSE /\ pc' = "loop"
                   /\ output' = [x |-> n.x, y |-> n.y, err |-> n.err,
                                 steps |-> output.steps + 1, plotted |-> plotted]
    /\ UNCHANGED <<prev, calls, ret, input>>

CallPolygonOfTwo ==
    /\ pc = "idle"
    /\ \E x0 \in LineXs, y0 \in LineYs, x1 \in LineXs, y1 \in LineYs, color \in BOOLEAN :
          /\ Returns(draw_polygon(Fb(buffer), << <<x0, y0>>, <<x1, y1>> >>, color),
                     LineCall("draw_polygon", x0, y0, x1, y1, color))
    /\ pc' = "done"
    /\ UNCHANGED <<ret, input, output>>

NextLine == BeginLine \/ StepLine \/ CallPolygonOfTwo

SpecLine == InitLine /\ [][NextLine]_vars

(***************************************************************************)
(* SpecFont: one text is measured by get_string_width and then laid out    *)
(* and drawn by render_string on a white buffer.  The texts are all        *)
(* sequences of up to MaxText characters over the characters with a width  *)
(* of their own, a full-width glyph and an unsupported character, and the  *)
(* texts of the tests.                                                     *)
(***************************************************************************)
MaxText == 2

Chars == {"1", ":", ".", "-", "/", "deg", "%", " ", "a"}
Texts == UNION {[1..n -> Chars] : n \in 0..MaxText}
CharWidths == {0 - 5, 5, 8}
Spacings == {0 - 1, 4}
StartXs == {0, 3}
\* The measurements of test_time_format and test_with_space.
TestTexts == {<<"1", "2", ":", "3", "4">>, <<"1", " ", "2">>}
FontInputs ==
    [text : Texts, char_width : CharWidths, spacing : Spacings, x : StartXs]
        \cup [text : TestTexts, char_width : {30}, spacing : {4}, x : StartXs]
StrokeWidths == {1, 2}

InitFont ==
    /\ buffer = NewBuffer
    /\ prev = NewBuffer
    /\ raised = "none"
    /\ calls = <<>>
    /\ ret = FALSE
    /\ pc = "ready"
    /\ input \in FontInputs
    /\ output = 0

CallGetStringWidth ==
    /\ pc = "ready"
    /\ pc' = "measured"
    /\ output' = get_string_width(input.text, input.char_width, input.spacing)
    /\ UNCHANGED <<buffer, prev, raised, calls, ret, input>>

CallRenderString ==
    /\ pc = "measured"
    /\ \E stroke_width \in StrokeWidths :
          LET st == render_string(Fb(buffer), input.text, input.x, 1, input.char_width,
                                  HEIGHT - 2, input.spacing, stroke_width, TRUE)
          IN  /\ buffer' = st.fb.buf
              /\ raised' = st.fb.exc
              /\ calls' = <<[op |-> "render_string", stroke_width |-> stroke_width]>>
              /\ output' = [width |-> output, x |-> st.x, boxes |-> st.boxes]
    /\ pc' = "rendered"
    /\ prev' = buffer
    /\ UNCHANGED <<ret, input>>

NextFont == CallGetStringWidth \/ CallRenderString

SpecFont == InitFont /\ [][NextFont]_vars

(***************************************************************************)
(* SpecThick: one _draw_thick_line call on a white or a black buffer, with *)
(* endpoints on a grid inside the display (single points, horizontal,      *)
(* vertical and slanted segments in both directions) and stroke widths     *)
(* from 1 to MaxStroke.                                                    *)
(***************************************************************************)
MaxStroke == 4

ThickXs == {4, 7, 12}
ThickYs == {3, 5, 6}
StrokeRange == 1..MaxStroke

ThickCall(x0, y0, x1, y1, stroke_width, color) ==
    [op |-> "draw_thick_line", x0 |-> x0, y0 |-> y0, x1 |-> x1, y1 |-> y1,
     stroke_width |-> stroke_width, color |-> color]

InitThick ==
    /\ \E fill \in {0, 255} : buffer = [i \in DOMAIN NewBuffer |-> fill]
    /\ prev = buffer
    /\ raised = "none"
    /\ calls = <<>>
    /\ ret = FALSE
    /\ pc = "idle"
    /\ input = <<>>
    /\ output = 0

CallDrawThickLine ==
    /\ calls = <<>>
    /\ \E x0 \in ThickXs, y0 \in ThickYs, x1 \in ThickXs, y1 \in ThickYs,
          stroke_width \in StrokeRange, color \in BOOLEAN :
          Returns(draw_thick_line(Fb(buffer), x0, y0, x1, y1, stroke_width, color),
                  ThickCall(x0, y0, x1, y1, stroke_width, color))
    /\ UNCHANGED <<ret, Pure>>

NextThick == CallDrawThickLine

SpecThick == InitThick /\ [][NextThick]_vars

(***************************************************************************)
(* SpecStroke: one stroke_bezier_texture_ball call, or one                 *)
(* fill_polygon_pattern call, on a white, a black or a striped buffer.     *)
(* The polygons are the rectangles of SpecPoly, two triangles and a        *)
(* two-point list.                                                         *)
(* The paths have up to MaxPath whole-pixel through-points along one row   *)
(* or one column of the display, repeated and reversed points included;    *)
(* output holds the stamps of the stroke in the order they were made.      *)
(***************************************************************************)
MaxPath == 3

RowPoints == {<<3 * Unit, 4 * Unit>>, <<6 * Unit, 4 * Unit>>, <<17 * Unit, 4 * Unit>>}
ColPoints == {<<12 * Unit, 1 * Unit>>, <<12 * Unit, 4 * Unit>>, <<12 * Unit, 8 * Unit>>}
Paths == UNION {[1..n -> RowPoints] \cup [1..n -> ColPoints] : n \in 0..MaxPath}
Smoothnesses == {Rat(0, 1), Rat(1, 2), Rat(1, 1)}
StrokeSpacings == {Unit, 2 * Unit}
Textures == { <<>>,
              << <<TRUE, FALSE>>, <<TRUE, TRUE>> >>,
              << <<FALSE, TRUE, TRUE>> >> }
InkFills == {0, 255, 90}

StrokeCall(points, smoothness, ball_texture, spacing) ==
    [op |-> "stroke_bezier_texture_ball", points |-> points, smoothness |-> smoothness,
     ball_texture |-> ball_texture, spacing |-> spacing, pattern |-> SOLID_BLACK]

InitStroke ==
    /\ \E fill \in InkFills : buffer = [i \in DOMAIN NewBuffer |-> fill]
    /\ prev = buffer
    /\ raised = "none"
    /\ calls = <<>>
    /\ ret = FALSE
    /\ pc = "idle"
    /\ input = <<>>
    /\ output = <<>>

CallStroke ==
    /\ calls = <<>>
    /\ \E points \in Paths, smoothness \in Smoothnesses, ball_texture \in Textures,
          spacing \in StrokeSpacings :
          LET st == stroke_bezier_texture_ball(Fb(buffer), points, smoothness,
                                               ball_texture, spacing)
          IN  /\ Returns(st.fb, StrokeCall(points, smoothness, ball_texture, spacing))
              /\ output' = st.stamps
    /\ UNCHANGED <<ret, pc, input>>

InkPolygons == Rects \cup { << <<0, 0>>, <<8, 0>>, <<0, 8>> >>,
                           << <<0 - 2, 0 - 3>>, <<13, HEIGHT + 1>>, <<8, 0>> >>,
                           << <<0, 0>>, <<8, 8>> >> }

CallInkPattern ==
    /\ calls = <<>>
    /\ \E points \in InkPolygons, pattern \in Patterns :
          Returns(fill_polygon_pattern(Fb(buffer), points, pattern),
                  PolyCall("fill_polygon_pattern", points, TRUE, pattern))
    /\ UNCHANGED <<ret, Pure>>

NextStroke == CallStroke \/ CallInkPattern

SpecStroke == InitStroke /\ [][NextStroke]_vars

(***************************************************************************)
(* SpecAnim: one call of transition_points, breathing_scale or             *)
(* breathing_offset.  Point lists have up to MaxPoints points with integer *)
(* and fractional coordinates; t runs from below 0 to above 1.             *)
(***************************************************************************)
MaxPoints == 2

AnimPoints ==
    {<<Rat(0, 1), Rat(0, 1)>>, <<Rat(10, 1), Rat(0 - 7, 1)>>,
     <<Rat(1, 2), Rat(5, 2)>>, <<Rat(0 - 3, 4), Rat(3, 2)>>}
PointLists == UNION {[1..n -> AnimPoints] : n \in 0..MaxPoints}
Factors == {Rat(0 - 1, 2), Rat(0, 1), Rat(1, 4), Rat(1, 2), Rat(1, 1), Rat(3, 2)}
Easings == {"none", "ease_in_out", "failing"}
Times == {Rat(0, 1), Rat(1, 2), Rat(1, 1), Rat(3, 1)}
Periods == {Rat(0, 1), Rat(2, 1), Rat(0 - 2, 1)}
Scales == {Rat(19, 20), Rat(21, 20), Rat(2, 1)}
Amplitudes == {Rat(0, 1), Rat(2, 1), Rat(0 - 3, 1)}

InitAnim ==
    /\ buffer = NewBuffer
    /\ prev = NewBuffer
    /\ raised = "none"
    /\ calls = <<>>
    /\ ret = FALSE
    /\ pc = "idle"
    /\ input = <<>>
    /\ output = 0

CallTransitionPoints ==
    /\ pc = "idle"
    /\ \E a \in PointLists, b \in PointLists, t \in Factors, easing \in Easings :
          /\ input' = [op |-> "transition_points", a |-> a, b |-> b, t |-> t,
                       easing |-> easing]
          /\ output' = transition_points(a, b, t, easing)
    /\ pc' = "done"
    /\ UNCHANGED <<buffer, prev, raised, calls, ret>>

CallBreathingScale ==
    /\ pc = "idle"
    /\ \E t \in Times, min_scale \in Scales, max_scale \in Scales, period \in Periods :
          /\ input' = [op |-> "breathing_scale", t |-> t, min_scale |-> min_scale,
                       max_scale |-> max_scale, period |-> period]
          /\ output' = breathing_scale(t, min_scale, max_scale, period)
    /\ pc' = "done"
    /\ UNCHANGED <<buffer, prev, raised, calls, ret>>

CallBreathingOffset ==
    /\ pc = "idle"
    /\ \E t \in Times, amplitude \in Amplitudes, period \in Periods :
          /\ input' = [op |-> "breathing_offset", t |-> t, amplitude |-> amplitude,
                       period |-> period]
          /\ output' = breathing_offset(t, amplitude, period)
    /\ pc' = "done"
    /\ UNCHANGED <<buffer, prev, raised, calls, ret>>

NextAnim == CallTransitionPoints \/ CallBreathingScale \/ CallBreathingOffset

SpecAnim == InitAnim /\ [][NextAnim]_vars

(***************************************************************************)
(* SpecBezier: one subdivide_bezier call.  The control points lie on whole *)
(* and half pixels of a small grid, so that collinear quadruples on        *)
(* horizontal, vertical and slanted lines, coincident endpoints and curved *)
(* quadruples all occur; the tolerance is 0, a quarter or half a pixel.    *)
(***************************************************************************)
BezierXs == {0, Unit \div 2, Unit, 2 * Unit}
BezierYs == {0, Unit \div 2, 2 * Unit}
BezierPoints == BezierXs \X BezierYs
Tolerances == {0, Unit \div 4, Unit \div 2}

InitBezier ==
    /\ buffer = NewBuffer
    /\ prev = NewBuffer
    /\ raised = "none"
    /\ calls = <<>>
    /\ ret = FALSE
    /\ pc = "idle"
    /\ input = <<>>
    /\ output = 0

CallSubdivideBezier ==
    /\ pc = "idle"
    /\ \E p0 \in BezierPoints, c0 \in BezierPoints, c1 \in BezierPoints,
          p1 \in BezierPoints, tolerance \in Tolerances :
          /\ input' = [op |-> "subdivide_bezier", p0 |-> p0, c0 |-> c0, c1 |-> c1,
                       p1 |-> p1, tolerance |-> tolerance]
          /\ output' = subdivide_bezier(p0, c0, c1, p1, tolerance)
    /\ pc' = "done"
    /\ UNCHANGED <<buffer, prev, raised, calls, ret>>

NextBezier == CallSubdivideBezier

SpecBezier == InitBezier /\ [][NextBezier]_vars

(***************************************************************************)
(* SpecDemo: any sequence of up to MaxDemoCalls calls of next_mode,        *)
(* set_mode, toggle_animation and draw on a new ToolkitDemo.  input holds  *)
(* the demo before the last call and output the demo after it; set_mode    *)
(* takes every integer from below the range to above it.                   *)
(***************************************************************************)
MaxDemoCalls == 3

ModeArgs == (0 - 2)..7

DemoCall(op, mode) == [op |-> op, mode |-> mode]

InitDemo ==
    /\ buffer = NewBuffer
    /\ prev = NewBuffer
    /\ raised = "none"
    /\ calls = <<>>
    /\ ret = FALSE
    /\ pc = "idle"
    /\ input = NewDemo
    /\ output = NewDemo

DemoReturns(demo, call) ==
    /\ Len(calls) < MaxDemoCalls
    /\ raised = "none"
    /\ input' = output
    /\ output' = demo
    /\ calls' = Append(calls, call)
    /\ UNCHANGED <<buffer, prev, pc>>

CallNextMode ==
    /\ DemoReturns(next_mode(output), DemoCall("next_mode", 0))
    /\ UNCHANGED <<raised, ret>>

CallSetMode ==
    /\ \E mode \in ModeArgs : DemoReturns(set_mode(output, mode), DemoCall("set_mode", mode))
    /\ UNCHANGED <<raised, ret>>

CallToggleAnimation ==
    /\ DemoReturns(toggle_animation(output), DemoCall("toggle_animation", 0))
    /\ ret' = toggle_animation(output).animation_enabled
    /\ UNCHANGED raised

CallDraw ==
    /\ DemoReturns(draw(output), DemoCall("draw", 0))
    /\ raised' = DrawRaises(draw(output))
    /\ UNCHANGED ret

NextDemo == CallNextMode \/ CallSetMode \/ CallToggleAnimation \/ CallDraw

SpecDemo == InitDemo /\ [][NextDemo]_vars

(***************************************************************************)
(* Claims about the Framebuffer.                                           *)
(***************************************************************************)
\* The wire format read directly: bit 7-(x&7) of byte y*BYTES_PER_ROW+(x>>3).
PixelAt(buf, x, y) == (buf[y * BYTES_PER_ROW + (x \div 8)] \div 2 ^ (7 - (x % 8))) % 2 = 1

Pixels == (0..(WIDTH - 1)) \X (0..(HEIGHT - 1))

OutOfBounds(x, y) == x < 0 \/ x >= WIDTH \/ y < 0 \/ y >= HEIGHT

\* for x in range(x_start, x_end): set_pixel(x, y, color)
RECURSIVE SetPixelLoop(_, _, _, _, _)
SetPixelLoop(fb, y, x_start, x_end, color) ==
    IF Raised(fb) \/ x_start >= x_end THEN fb
    ELSE SetPixelLoop(set_pixel(fb, x_start, y, color), y, x_start + 1, x_end, color)

\* C1: fill_span(y, x_start, x_end, color) leaves the buffer bit-identical to
\* calling set_pixel(x, y, color) for every x in [x_start, x_end) on the same
\* starting buffer, for every y, x_start, x_end (negative, over-width and
\* inverted ranges included) and both colors.
C1_FillSpanIsSetPixelLoop ==
    (calls # <<>> /\ LastCall.op = "fill_span") =>
        /\ raised = "none"
        /\ buffer = SetPixelLoop(Fb(prev), LastCall.y, LastCall.x,
                                 LastCall.x_end, LastCall.color).buf

\* A span with a partial first byte, a full middle byte and a partial last
\* byte, clipped at the right edge, that changed a buffer of mixed contents.
C1_Witness ==
    /\ calls # <<>>
    /\ LastCall.op = "fill_span"
    /\ LastCall.x = 3 /\ LastCall.x_end = WIDTH + 2
    /\ LastCall.y = 1 /\ LastCall.color
    /\ prev[0] = 165
    /\ buffer # prev

\* C2: for in-bounds (x, y), set_pixel changes at most bit 7-(x&7) of byte
\* y*BYTES_PER_ROW + (x>>3), which becomes 1 for black and 0 for white; on a
\* cleared buffer set_pixel(0,0,true) gives buffer[0] = 0x80 and
\* set_pixel(7,0,true) gives buffer[0] = 0x01.
C2_SetPixelOneBit ==
    (calls # <<>> /\ LastCall.op = "set_pixel" /\ ~OutOfBounds(LastCall.x, LastCall.y)) =>
        LET x == LastCall.x
            y == LastCall.y
            byte == y * BYTES_PER_ROW + (x \div 8)
            bit == 7 - (x % 8)
        IN  /\ raised = "none"
            /\ \A i \in DOMAIN buffer : i # byte => buffer[i] = prev[i]
            /\ \A k \in 0..7 :
                  k # bit => ((buffer[byte] \div 2 ^ k) % 2 = (prev[byte] \div 2 ^ k) % 2)
            /\ (buffer[byte] \div 2 ^ bit) % 2 = (IF LastCall.color THEN 1 ELSE 0)
            /\ (prev[0] = 0 /\ x = 0 /\ y = 0 /\ LastCall.color) => buffer[0] = 128
            /\ (prev[0] = 0 /\ x = 7 /\ y = 0 /\ LastCall.color) => buffer[0] = 1

C2_Witness ==
    /\ calls # <<>>
    /\ LastCall.op = "set_pixel"
    /\ LastCall.x = 7 /\ LastCall.y = 0 /\ LastCall.color
    /\ prev[0] = 0
    /\ buffer[0] = 1

\* C3: for all in-bounds (x, y) and any prior contents, get_pixel(x, y)
\* returns true immediately after set_pixel(x, y, true) and false
\* immediately after set_pixel(x, y, false).
C3_GetAfterSet ==
    (/\ Len(calls) = 2
     /\ calls[1].op = "set_pixel" /\ calls[2].op = "get_pixel"
     /\ calls[2].x = calls[1].x /\ calls[2].y = calls[1].y
     /\ ~OutOfBounds(calls[1].x, calls[1].y)) =>
        /\ raised = "none"
        /\ ret = calls[1].color

\* A black pixel of the prior contents was set white and read back white.
C3_Witness ==
    /\ Len(calls) = 2
    /\ calls[1].op = "set_pixel" /\ calls[2].op = "get_pixel"
    /\ calls[2].x = calls[1].x /\ calls[2].y = calls[1].y
    /\ calls[1].x = WIDTH - 1 /\ calls[1].y = HEIGHT - 1
    /\ ~calls[1].color
    /\ buffer[BYTES_PER_ROW * HEIGHT - 1] = 254
    /\ ~ret

\* C4: for (x, y) out of bounds, set_pixel leaves every byte unchanged and
\* get_pixel returns false, whatever the buffer contains; neither raises.
C4_OutOfBoundsNoOp ==
    (calls # <<>> /\ OutOfBounds(LastCall.x, LastCall.y)) =>
        /\ LastCall.op = "set_pixel" => (buffer = prev /\ raised = "none")
        /\ LastCall.op = "get_pixel" => (~ret /\ buffer = prev /\ raised = "none")

\* get_pixel just past the right edge of an all-black buffer returned false.
C4_Witness ==
    /\ Len(calls) = 1
    /\ LastCall.op = "get_pixel"
    /\ LastCall.x = WIDTH /\ LastCall.y = 0
    /\ buffer[0] = 255
    /\ ~ret

\* What a call writes, by its documentation.
Covers(c, x, y) ==
    CASE c.op = "clear" -> TRUE
      [] c.op = "set_pixel" -> c.x = x /\ c.y = y
      [] c.op = "fill_span" -> c.y = y /\ c.x <= x /\ x < c.x_end
      [] OTHER -> FALSE

\* The color of the latest of the first n calls that covers (x, y).
RECURSIVE LatestColor(_, _, _)
LatestColor(n, x, y) ==
    IF n = 0 THEN FALSE
    ELSE IF Covers(calls[n], x, y) THEN calls[n].color
    ELSE LatestColor(n - 1, x, y)

\* C5: after any sequence of clear, set_pixel and fill_span calls the value
\* of every pixel is the color of the latest call that covers it (white if
\* none does), and a call never changes a pixel it does not cover.
C5_PaintersOrder ==
    \A p \in Pixels :
        /\ PixelAt(buffer, p[1], p[2]) = LatestColor(Len(calls), p[1], p[2])
        /\ (calls # <<>> /\ ~Covers(LastCall, p[1], p[2])) =>
               PixelAt(buffer, p[1], p[2]) = PixelAt(prev, p[1], p[2])

\* A black span was drawn and then a white pixel inside it.
C5_Witness ==
    /\ Len(calls) = 2
    /\ calls[1].op = "fill_span" /\ calls[1].color /\ calls[1].y = 0
    /\ calls[1].x = 3 /\ calls[1].x_end = 13
    /\ calls[2].op = "set_pixel" /\ ~calls[2].color
    /\ calls[2].x = 12 /\ calls[2].y = 0
    /\ PixelAt(buffer, 11, 0) /\ ~PixelAt(buffer, 12, 0)

\* C6: after any sequence of clear, set_pixel and fill_span calls with
\* arbitrary integer arguments the buffer still has BYTES_PER_ROW*HEIGHT
\* bytes, each in 0..255: no call resizes the buffer or writes outside it
\* (in Python a write outside raises IndexError, a value outside 0..255
\* raises ValueError).
C6_BufferShape ==
    /\ DOMAIN buffer = 0..(BYTES_PER_ROW * HEIGHT - 1)
    /\ \A i \in DOMAIN buffer : buffer[i] \in 0..255
    /\ raised = "none"

\* An over-wide span on the last row, after a clear to black.
C6_Witness ==
    /\ Len(calls) = 2
    /\ calls[1].op = "clear" /\ calls[1].color
    /\ calls[2].op = "fill_span" /\ ~calls[2].color
    /\ calls[2].y = HEIGHT - 1 /\ calls[2].x_end > WIDTH
    /\ buffer[BYTES_PER_ROW * HEIGHT - 1] = 0
    /\ buffer[BYTES_PER_ROW * HEIGHT - BYTES_PER_ROW - 1] = 255

(***************************************************************************)
(* Claims about the polygon fills and the patterns.                        *)
(***************************************************************************)
IsFill(c) == c.op \in {"fill_polygon", "fill_polygon_pattern"}

\* The largest vertex y of a polygon.
TopY(points) ==
    CHOOSE m \in {points[i][2] : i \in DOMAIN points} :
        \A i \in DOMAIN points : points[i][2] <= m

RowEqual(a, b, y) == \A x \in 0..(WIDTH - 1) : PixelAt(a, x, y) = PixelAt(b, x, y)

\* C7: for every polygon with at least 3 vertices neither fill_polygon nor
\* fill_polygon_pattern writes a pixel on the scanline y = max vertex y.
C7_MaxRowUntouched ==
    (calls # <<>> /\ IsFill(LastCall) /\ Len(LastCall.points) >= 3) =>
        (TopY(LastCall.points) \in 0..(HEIGHT - 1) =>
            RowEqual(buffer, prev, TopY(LastCall.points)))

\* A black square was filled on white: row 7 is inked, row 8 is not.
C7_Witness ==
    /\ calls # <<>>
    /\ LastCall.op = "fill_polygon"
    /\ LastCall.points = Rect(0, 0, 8, 8)
    /\ LastCall.color
    /\ prev = NewBuffer
    /\ PixelAt(buffer, 4, 7)
    /\ RowEqual(buffer, prev, 8)

\* C8: on a white buffer, for an in-bounds rectangle [(x0,y0),(x1,y0),
\* (x1,y1),(x0,y1)] with x0<x1 and y0<y1, fill_polygon_pattern with level P
\* sets exactly the pixels with x0<=x<=x1, y0<=y<y1 for which
\* pattern_test(P,x,y) is true; [(0,0),(8,0),(8,8),(0,8)] with MEDIUM sets
\* the pattern pixels of rows 0..7 and nothing at y=8.
C8_RectPatternExact ==
    (/\ calls # <<>>
     /\ LastCall.op = "fill_polygon_pattern"
     /\ LastCall.points \in Rects
     /\ prev = NewBuffer) =>
        LET x0 == LastCall.points[1][1]
            y0 == LastCall.points[1][2]
            x1 == LastCall.points[3][1]
            y1 == LastCall.points[3][2]
        IN  \A p \in Pixels :
               PixelAt(buffer, p[1], p[2]) =
                   (/\ x0 <= p[1] /\ p[1] <= x1
                    /\ y0 <= p[2] /\ p[2] < y1
                    /\ pattern_test(LastCall.pattern, p[1], p[2]))

C8_Witness ==
    /\ calls # <<>>
    /\ LastCall.op = "fill_polygon_pattern"
    /\ LastCall.points = Rect(0, 0, 8, 8)
    /\ LastCall.pattern = MEDIUM
    /\ prev = NewBuffer
    /\ PixelAt(buffer, 0, 0) /\ PixelAt(buffer, 8, 0) /\ ~PixelAt(buffer, 1, 0)
    /\ PixelAt(buffer, 7, 7)
    /\ RowEqual(buffer, NewBuffer, 8)

\* C9: over every 4x4-aligned block (negative blocks included) pattern_test is
\* true on exactly 16 cells for SOLID_BLACK, 12 for DENSE, 8 for MEDIUM, 4
\* for SPARSE and 0 for SOLID_WHITE.
C9_BlockCounts ==
    pc = "done" =>
        /\ input.level = SOLID_BLACK => output = 16
        /\ input.level = DENSE => output = 12
        /\ input.level = MEDIUM => output = 8
        /\ input.level = SPARSE => output = 4
        /\ input.level = SOLID_WHITE => output = 0

C9_Witness ==
    /\ pc = "done"
    /\ input.level = DENSE
    /\ input.i = 0 - MaxBlock /\ input.j = 1
    /\ output = 12

\* C10: draw_polygon with fewer than 2 points, fill_polygon with fewer than 3,
\* fill_polygon_pattern with fewer than 3 or with SOLID_WHITE, and fill_rect
\* with w <= 0 or h <= 0 return without raising and leave every byte of the
\* buffer unchanged.
C10_Degenerate(c) ==
    \/ c.op = "draw_polygon" /\ Len(c.points) < 2
    \/ c.op = "fill_polygon" /\ Len(c.points) < 3
    \/ c.op = "fill_polygon_pattern" /\ (Len(c.points) < 3 \/ c.pattern = SOLID_WHITE)
    \/ c.op = "fill_rect" /\ (c.w <= 0 \/ c.h <= 0)

C10_DegenerateNoOp ==
    (calls # <<>> /\ C10_Degenerate(LastCall)) => (buffer = prev /\ raised = "none")

\* fill_polygon was handed two distinct points and drew nothing.
C10_Witness ==
    /\ calls # <<>>
    /\ LastCall.op = "fill_polygon"
    /\ LastCall.points = << <<0, 0>>, <<8, 8>> >>
    /\ LastCall.color
    /\ buffer = NewBuffer
    /\ raised = "none"

\* C27: for every polygon with integer vertices and every starting buffer,
\* fill_polygon_pattern(points, SOLID_BLACK) leaves exactly the buffer that
\* fill_polygon(points, color = true) leaves, and ends the same way.
C27_SolidBlackIsFill ==
    /\ (/\ calls # <<>>
        /\ LastCall.op = "fill_polygon_pattern"
        /\ LastCall.pattern = SOLID_BLACK) =>
           [buf |-> buffer, exc |-> raised] = fill_polygon(Fb(prev), LastCall.points, TRUE)
    /\ (calls # <<>> /\ LastCall.op = "fill_polygon" /\ LastCall.color) =>
           [buf |-> buffer, exc |-> raised] =
               fill_polygon_pattern(Fb(prev), LastCall.points, SOLID_BLACK)

\* The bow-tie (0,0) (8,8) (8,0) (0,8), four intersections on a scanline,
\* filled solid black on a white buffer: both wings are inked and the gap
\* between them is not.
C27_Witness ==
    /\ calls # <<>>
    /\ LastCall.op = "fill_polygon_pattern"
    /\ LastCall.pattern = SOLID_BLACK
    /\ LastCall.points = << <<0, 0>>, <<8, 8>>, <<8, 0>>, <<0, 8>> >>
    /\ prev = NewBuffer
    /\ PixelAt(buffer, 0, 1) /\ PixelAt(buffer, 8, 1) /\ ~PixelAt(buffer, 4, 1)

\* The scanlines looked at: the rows of the display and a few beyond.
Scanlines == (0 - 4)..(HEIGHT + 2)

\* C29: in fill_polygon and fill_polygon_pattern, for every closed polygon
\* with at least 3 integer vertices and every scanline y, the number of
\* intersections collected under the test y0 <= y < y1 is even.
C29_EvenIntersections ==
    (calls # <<>> /\ IsFill(LastCall) /\ Len(LastCall.points) >= 3) =>
        \A y \in Scanlines : Len(Intersections(LastCall.points, y, 1)) % 2 = 0

\* A triangle with vertices on scanlines 0 and 8: two intersections on
\* scanline 0, where two edges start, and none on scanline 8, where they end.
C29_Witness ==
    /\ calls # <<>>
    /\ IsFill(LastCall)
    /\ LastCall.points = << <<0, 0>>, <<8, 8>>, <<0, 8>> >>
    /\ Len(Intersections(LastCall.points, 0, 1)) = 2
    /\ Len(Intersections(LastCall.points, 4, 1)) = 2
    /\ Len(Intersections(LastCall.points, 8, 1)) = 0

(***************************************************************************)
(* Claims about circles and lines.                                         *)
(***************************************************************************)
IsCircle(c) == c.op \in {"draw_circle", "fill_circle"}

\* C11 as stated: draw_circle and fill_circle called with r <= 0 return
\* without raising and leave the buffer unchanged.
C11_ZeroOrNegativeNoOp ==
    (calls # <<>> /\ IsCircle(LastCall) /\ LastCall.r <= 0) =>
        (buffer = prev /\ raised = "none")

\* C11 amended: draw_circle and fill_circle called with r < 0 return without
\* raising and leave the buffer unchanged; called with r = 0 they return
\* without raising after giving the centre pixel the color (when it is inside
\* the display) and change no other pixel.
C11_NegativeNoOpZeroOnePixel ==
    (calls # <<>> /\ IsCircle(LastCall)) =>
        /\ LastCall.r < 0 => (buffer = prev /\ raised = "none")
        /\ LastCall.r = 0 =>
              /\ raised = "none"
              /\ \A p \in Pixels :
                    PixelAt(buffer, p[1], p[2]) =
                        IF p = <<LastCall.cx, LastCall.cy>> THEN LastCall.color
                        ELSE PixelAt(prev, p[1], p[2])

\* fill_circle with radius 0 inked its centre on a white buffer.
C11_Witness ==
    /\ calls # <<>>
    /\ LastCall.op = "fill_circle"
    /\ LastCall.r = 0 /\ LastCall.cx = 5 /\ LastCall.cy = 4 /\ LastCall.color
    /\ prev = NewBuffer
    /\ PixelAt(buffer, 5, 4)
    /\ buffer # prev

\* C12: for every pair of integer endpoints, in all 8 octants and for the
\* single point, draw_line terminates after exactly max(|x1-x0|, |y1-y0|)
\* steps, plotting (x0,y0) first and (x1,y1) last: the step count never
\* exceeds that maximum while the loop runs and equals it when the loop ends.
C12_LineSteps ==
    (calls # <<>> /\ LastCall.op = "draw_line") =>
        LET n == Max(Abs(LastCall.x1 - LastCall.x0), Abs(LastCall.y1 - LastCall.y0))
        IN  /\ raised = "none"
            /\ output.steps <= n
            /\ pc = "done" =>
                  /\ output.steps = n
                  /\ Len(output.plotted) = n + 1
                  /\ output.plotted[1] = <<LastCall.x0, LastCall.y0>>
                  /\ output.plotted[n + 1] = <<LastCall.x1, LastCall.y1>>

\* A steep line drawn up and to the left, from inside to outside the display.
C12_Witness ==
    /\ pc = "done"
    /\ LastCall.op = "draw_line"
    /\ LastCall.x0 = 3 /\ LastCall.y0 = MaxLineY
    /\ LastCall.x1 = 1 /\ LastCall.y1 = 0 - 1
    /\ output.steps = MaxLineY + 1
    /\ output.plotted[1] = <<3, MaxLineY>>
    /\ output.plotted[Len(output.plotted)] = <<1, 0 - 1>>

\* The buffer draw_line leaves when called on the starting buffer.
LineBuf(x0, y0, x1, y1, color) == draw_line(Fb(prev), x0, y0, x1, y1, color).buf

\* The same call with the endpoints swapped, on the starting buffer.
ReversedBuf == LineBuf(LastCall.x1, LastCall.y1, LastCall.x0, LastCall.y0, LastCall.color)

Colored(buf, color) == {p \in Pixels : PixelAt(buf, p[1], p[2]) = color}

C14_TwoPointsOneLine ==
    (pc = "done" /\ LastCall.op = "draw_polygon") =>
        buffer = LineBuf(LastCall.x0, LastCall.y0, LastCall.x1, LastCall.y1, LastCall.color)

\* C14 amended: draw_polygon with exactly two points A and B produces the
\* same buffer as draw_line from A to B followed by draw_line from B to A;
\* that is the buffer of the single draw_line from A to B whenever the
\* segment is horizontal, vertical or at 45 degrees.
C14_TwoPointsBothLines ==
    (pc = "done" /\ LastCall.op = "draw_polygon") =>
        LET x0 == LastCall.x0
            y0 == LastCall.y0
            x1 == LastCall.x1
            y1 == LastCall.y1
            there == draw_line(Fb(prev), x0, y0, x1, y1, LastCall.color)
        IN  /\ raised = "none"
            /\ buffer = draw_line(there, x1, y1, x0, y0, LastCall.color).buf
            /\ (x0 = x1 \/ y0 = y1 \/ Abs(x1 - x0) = Abs(y1 - y0)) => buffer = there.buf

\* The outline of (0,0), (1,2) inks the three pixels of the line there and
\* the different middle pixel of the line back.
C14_Witness ==
    /\ pc = "done"
    /\ LastCall.op = "draw_polygon"
    /\ LastCall.x0 = 0 /\ LastCall.y0 = 0 /\ LastCall.x1 = 1 /\ LastCall.y1 = 2
    /\ LastCall.color
    /\ prev = NewBuffer
    /\ Colored(buffer, TRUE) = {<<0, 0>>, <<0, 1>>, <<1, 1>>, <<1, 2>>}

\* C22: for every radius r >= 1 and an in-bounds centre, fill_circle gives
\* the color to every pixel of the display with
\* (x-cx)^2 + (y-cy)^2 < (r-1)^2 and leaves every pixel with |x-cx| > r or
\* |y-cy| > r as it was.
C22_DiscFilled ==
    (/\ calls # <<>>
     /\ LastCall.op = "fill_circle"
     /\ LastCall.r >= 1
     /\ InBounds(LastCall.cx, LastCall.cy)) =>
        /\ raised = "none"
        /\ \A p \in Pixels :
              LET dx == p[1] - LastCall.cx
                  dy == p[2] - LastCall.cy
              IN  /\ dx * dx + dy * dy < (LastCall.r - 1) * (LastCall.r - 1) =>
                         PixelAt(buffer, p[1], p[2]) = LastCall.color
                  /\ (Abs(dx) > LastCall.r \/ Abs(dy) > LastCall.r) =>
                         PixelAt(buffer, p[1], p[2]) = PixelAt(prev, p[1], p[2])

\* A black disc of radius 5 on a white buffer: (15, 6) inside is black,
\* (18, 4) beyond the radius is still white.
C22_Witness ==
    /\ calls # <<>>
    /\ LastCall.op = "fill_circle"
    /\ LastCall.r = 5 /\ LastCall.cx = 12 /\ LastCall.cy = 4 /\ LastCall.color
    /\ prev = NewBuffer
    /\ PixelAt(buffer, 15, 6)
    /\ PixelAt(buffer, 12, 8)
    /\ ~PixelAt(buffer, 18, 4)

(***************************************************************************)
(* Claims about the vector font.                                           *)
(***************************************************************************)
\* The width the claim gives a character.
StatedWidth(char, char_width) ==
    CASE char \in {":", "/", " "} -> char_width \div 2
      [] char \in {".", "deg"} -> char_width \div 3
      [] char = "-" -> (2 * char_width) \div 3
      [] OTHER -> char_width

RECURSIVE SumWidths(_, _)
SumWidths(text, char_width) ==
    IF text = <<>> THEN 0
    ELSE StatedWidth(Head(text), char_width) + SumWidths(Tail(text), char_width)

\* C15: get_string_width(text, char_width, spacing) is 0 for the empty string
\* and otherwise the sum of the per-character widths plus
\* spacing*(len(text)-1), with width floor(char_width/2) for ':', '/' and
\* space, floor(char_width/3) for '.' and the degree sign,
\* floor(2*char_width/3) for '-' and char_width for every other character,
\* supported or not; "12:34" with char_width=30, spacing=4 gives 151.
C15_StringWidth ==
    pc = "measured" =>
        /\ input.text = <<>> => output = 0
        /\ input.text # <<>> =>
              output = SumWidths(input.text, input.char_width)
                          + input.spacing * (Len(input.text) - 1)
        /\ (/\ input.text = <<"1", "2", ":", "3", "4">>
            /\ input.char_width = 30 /\ input.spacing = 4) => output = 151

C15_Witness ==
    /\ pc = "measured"
    /\ input.text = <<"1", "2", ":", "3", "4">>
    /\ input.char_width = 30 /\ input.spacing = 4
    /\ output = 151

\* C16: for every non-empty text (spaces and unsupported characters
\* included), char_width and spacing, the right edge of the last character's
\* box as laid out by render_string starting at x (the cursor before that
\* character plus that character's width) equals
\* x + get_string_width(text, char_width, spacing): no trailing spacing is
\* counted after the final character.
C16_WidthMatchesLayout ==
    (pc = "rendered" /\ input.text # <<>>) =>
        LET last == output.boxes[Len(output.boxes)]
        IN  /\ raised = "none"
            /\ Len(output.boxes) = Len(input.text)
            /\ last.x + last.width = input.x + output.width
            /\ output.x = input.x + output.width + input.spacing

\* "-a" at x = 3 with char_width 8 and spacing 4: the dash takes 5, the
\* unsupported character 8, and the text ends at 3 + 17.
C16_Witness ==
    /\ pc = "rendered"
    /\ input.text = <<"-", "a">>
    /\ input.x = 3 /\ input.char_width = 8 /\ input.spacing = 4
    /\ output.width = 17
    /\ output.boxes[2] = [x |-> 12, width |-> 8]
    /\ buffer # NewBuffer

\* The first coordinate of a run of w pixels centred at c: for an odd w the
\* one centred run, for an even w either of the two runs nearest to it.
RunStarts(c, w) == {c - (w \div 2), c - ((w - 1) \div 2)}

IsThick == calls # <<>> /\ LastCall.op = "draw_thick_line"

\* C23 as stated: for a zero-length segment and any stroke_width w > 1,
\* _draw_thick_line gives the color to exactly a w-by-w square of pixels
\* centred at the point and changes nothing else.
C23_SquareOfWidth ==
    (/\ IsThick
     /\ LastCall.x0 = LastCall.x1 /\ LastCall.y0 = LastCall.y1
     /\ LastCall.stroke_width > 1) =>
        /\ raised = "none"
        /\ \E lx \in RunStarts(LastCall.x0, LastCall.stroke_width),
              ly \in RunStarts(LastCall.y0, LastCall.stroke_width) :
              \A p \in Pixels :
                  PixelAt(buffer, p[1], p[2]) =
                      IF /\ p[1] \in lx..(lx + LastCall.stroke_width - 1)
                         /\ p[2] \in ly..(ly + LastCall.stroke_width - 1)
                      THEN LastCall.color
                      ELSE PixelAt(prev, p[1], p[2])

\* C24 as stated: for a horizontal (vertical) segment of non-zero length and
\* any stroke_width w > 1, _draw_thick_line colors exactly w adjacent rows
\* (columns) about the segment over its extent and changes nothing else.
C24_AdjacentLines ==
    (/\ IsThick
     /\ LastCall.stroke_width > 1
     /\ (LastCall.x0 = LastCall.x1) # (LastCall.y0 = LastCall.y1)) =>
        /\ raised = "none"
        /\ LET w == LastCall.stroke_width
               horizontal == LastCall.y0 = LastCall.y1
               lo == IF horizontal THEN Min(LastCall.x0, LastCall.x1)
                     ELSE Min(LastCall.y0, LastCall.y1)
               hi == IF horizontal THEN Max(LastCall.x0, LastCall.x1)
                     ELSE Max(LastCall.y0, LastCall.y1)
           IN  \E l \in RunStarts(IF horizontal THEN LastCall.y0 ELSE LastCall.x0, w) :
                  \A p \in Pixels :
                      LET along == IF horizontal THEN p[1] ELSE p[2]
                          across == IF horizontal THEN p[2] ELSE p[1]
                      IN  PixelAt(buffer, p[1], p[2]) =
                              IF along \in lo..hi /\ across \in l..(l + w - 1)
                              THEN LastCall.color
                              ELSE PixelAt(prev, p[1], p[2])

(***************************************************************************)
(* Claims about the animation math.                                        *)
(***************************************************************************)
Transitioned == pc = "done" /\ input.op = "transition_points"

\* C17: transition_points(a, b, t, easing) fails with the length-mismatch
\* error whenever len(a) # len(b), for every t and every easing, without
\* returning a point list and without modifying a or b.
C17_MismatchRaises ==
    (Transitioned /\ Len(input.a) # Len(input.b)) =>
        /\ output.exc = "ValueError"
        /\ ~output.returned
        /\ output.a = input.a /\ output.b = input.b

\* Two points against one, with an easing that would itself have raised.
C17_Witness ==
    /\ Transitioned
    /\ Len(input.a) = 2 /\ Len(input.b) = 1
    /\ input.easing = "failing"
    /\ output.exc = "ValueError"
    /\ ~output.returned

SameNumbers(ps, qs) ==
    /\ Len(ps) = Len(qs)
    /\ \A i \in 1..Len(ps) : RatEq(ps[i][1], qs[i][1]) /\ RatEq(ps[i][2], qs[i][2])

Integral(ps) == \A i \in 1..Len(ps) : ps[i][1].n % ps[i][1].d = 0 /\ ps[i][2].n % ps[i][2].d = 0

Rounded(ps) == [i \in 1..Len(ps) |-> <<RoundCoord(ps[i][1]), RoundCoord(ps[i][2])>>]

Linear(t) ==
    /\ Transitioned
    /\ Len(input.a) = Len(input.b)
    /\ input.easing = "none"
    /\ RatEq(input.t, Rat(t, 1))

\* C18 as stated: for point lists a and b of equal length,
\* transition_points(a, b, 0) returns a and transition_points(a, b, 1)
\* returns b exactly, every coordinate equal to the input coordinate.
C18_EndpointsExact ==
    /\ Linear(0) => (output.returned /\ SameNumbers(output.result, input.a))
    /\ Linear(1) => (output.returned /\ SameNumbers(output.result, input.b))

\* C18 amended: for point lists a and b of equal length whose coordinates are
\* whole numbers, transition_points(a, b, 0) returns a and
\* transition_points(a, b, 1) returns b exactly; a coordinate that is not a
\* whole number is returned rounded to the nearest integer, a tie going to
\* the even one.
C18_EndpointsRounded ==
    /\ Linear(0) =>
          /\ output.returned
          /\ SameNumbers(output.result, Rounded(input.a))
          /\ Integral(input.a) => SameNumbers(output.result, input.a)
    /\ Linear(1) =>
          /\ output.returned
          /\ SameNumbers(output.result, Rounded(input.b))
          /\ Integral(input.b) => SameNumbers(output.result, input.b)

\* At t = 1 the list [(0.5, 2.5), (10, -7)] comes back as [(0, 2), (10, -7)].
C18_Witness ==
    /\ Linear(1)
    /\ input.a = << <<Rat(0 - 3, 4), Rat(3, 2)>>, <<Rat(0, 1), Rat(0, 1)>> >>
    /\ input.b = << <<Rat(1, 2), Rat(5, 2)>>, <<Rat(10, 1), Rat(0 - 7, 1)>> >>
    /\ output.returned
    /\ SameNumbers(output.result,
                   << <<Rat(0, 1), Rat(2, 1)>>, <<Rat(10, 1), Rat(0 - 7, 1)>> >>)

\* C19 as stated: for every t, breathing_scale(t, min, max, period=0) returns
\* min, and breathing_offset(t, amplitude, period=0) returns a value without
\* raising.
C19_ZeroPeriodFallsBack ==
    (pc = "done" /\ input.op \in {"breathing_scale", "breathing_offset"}
        /\ RatEq(input.period, Rat(0, 1))) =>
        /\ output.exc = "none"
        /\ input.op = "breathing_scale" => RatEq(output.val, input.min_scale)

(***************************************************************************)
(* Claims about the bezier subdivision.                                    *)
(***************************************************************************)
\* (b - a) x (c - a)
Cross(a, b, c) == (b[1] - a[1]) * (c[2] - a[2]) - (b[2] - a[2]) * (c[1] - a[1])

\* The four points lie on one line.
Collinear(p0, c0, c1, p1) ==
    IF p0 = p1 THEN Cross(p0, c0, c1) = 0
    ELSE Cross(p0, p1, c0) = 0 /\ Cross(p0, p1, c1) = 0

Subdivided == pc = "done" /\ input.op = "subdivide_bezier"

EndsOnly == <<RoundPoint(input.p0), RoundPoint(input.p1)>>

Near(a, b, d) == (b[1] - a[1]) * (b[1] - a[1]) + (b[2] - a[2]) * (b[2] - a[2]) <= d * d

WithTolerance(tolerance) ==
    subdivide_bezier(input.p0, input.c0, input.c1, input.p1, tolerance)

\* C21: for fixed control points and tolerances t1 <= t2, subdivide_bezier
\* with t1 returns at least as many points as with t2.  Here t1 is the
\* tolerance of the call and t2 every tolerance of the model not below it;
\* a call the model follows to its end at t1 is followed to its end at t2.
C21_ToleranceMonotone ==
    (Subdivided /\ output.exc = "none") =>
        \A t2 \in Tolerances :
            input.tolerance <= t2 =>
                /\ WithTolerance(t2).exc = "none"
                /\ Len(output.points) >= Len(WithTolerance(t2).points)

\* A curve that a quarter pixel of tolerance subdivides and half a pixel
\* does not.
C21_Witness ==
    /\ Subdivided
    /\ output.exc = "none"
    /\ input.tolerance = Unit \div 4
    /\ Len(output.points) > Len(WithTolerance(Unit \div 2).points)
    /\ Len(WithTolerance(Unit \div 2).points) = 2

(***************************************************************************)
(* Claims about the texture-ball stroke.                                   *)
(***************************************************************************)
IsStroke == calls # <<>> /\ LastCall.op = "stroke_bezier_texture_ball"

\* The control points p0, p1, p2, p3 of segment i of the stroke of the state.
SegmentControls(i) ==
    LET points == LastCall.points
        handles == auto_tangent(points, LastCall.smoothness)
        p0 == points[i]
        p3 == points[i + 1]
    IN  <<p0,
          <<p0[1] + handles[i][2][1], p0[2] + handles[i][2][2]>>,
          <<p3[1] + handles[i + 1][1][1], p3[2] + handles[i + 1][1][2]>>,
          p3>>

\* The length, in pixels, of the subdivide_bezier polyline of segment i.
SegmentArc(i) ==
    LET c == SegmentControls(i)
    IN  ArcLength(subdivide_bezier(c[1], c[2], c[3], c[4], LastCall.spacing).points, 2)

\* The stamps of segment i, in the order they were made.
StampsOf(i) == SelectSeq(output, LAMBDA stamp : stamp.seg = i)

\* C25 as stated: every stroked segment uses
\* steps = max(1, round(arc_length / spacing)) parameter steps, arc_length
\* being the length of its subdivide_bezier polyline.
C25_StepsRounded ==
    IsStroke =>
        \A k \in 1..Len(output) :
            output[k].num_steps =
                Max(1, PyRound(Rat(SegmentArc(output[k].seg) * Unit, LastCall.spacing)))

\* C25 amended: every stroked segment uses
\* steps = max(1, int(arc_length / spacing)) parameter steps, the quotient
\* truncated; its stamps are at t = step / steps for step = 0 .. steps in
\* turn (from step 1 on a later segment), and a segment whose polyline has
\* length 0 is not stroked.
C25_StepsTruncated ==
    (IsStroke /\ Len(LastCall.points) >= 2) =>
        /\ raised = "none"
        /\ \A k \in 1..Len(output) : output[k].seg \in 1..(Len(LastCall.points) - 1)
        /\ \A i \in 1..(Len(LastCall.points) - 1) :
              LET steps == Max(1, (SegmentArc(i) * Unit) \div LastCall.spacing)
                  first == IF i = 1 THEN 0 ELSE 1
                  c == SegmentControls(i)
              IN  IF SegmentArc(i) = 0 THEN StampsOf(i) = <<>>
                  ELSE /\ Len(StampsOf(i)) = steps - first + 1
                       /\ \A k \in 1..Len(StampsOf(i)) :
                             /\ StampsOf(i)[k].num_steps = steps
                             /\ StampsOf(i)[k].step = first + k - 1
                             /\ StampsOf(i)[k].pos =
                                   cubic_bezier(c[1], c[2], c[3], c[4], first + k - 1, steps)

\* A segment 3 pixels long stroked with spacing 2: one step, where rounding
\* 1.5 would give two.
C25_Witness ==
    /\ IsStroke
    /\ LastCall.points = << <<3 * Unit, 4 * Unit>>, <<6 * Unit, 4 * Unit>> >>
    /\ LastCall.spacing = 2 * Unit
    /\ SegmentArc(1) = 3
    /\ Len(output) = 2
    /\ output[1].num_steps = 1 /\ output[2].step = 1

\* The stamps made at through-point j: step 0 of the segment that starts
\* there and the last step of the segment that ends there.
StampsAt(j) ==
    {k \in 1..Len(output) :
        \/ output[k].seg = j /\ output[k].step = 0
        \/ output[k].seg = j - 1 /\ output[k].step = output[k].num_steps}

\* C26 as stated: for a path of n >= 2 through-points the texture is stamped
\* at every through-point exactly once: the first point at step 0 of the
\* first segment and each later point as the last step of the segment
\* ending there.
C26_EachPointOnce ==
    (IsStroke /\ Len(LastCall.points) >= 2) =>
        \A j \in 1..Len(LastCall.points) :
            /\ Cardinality(StampsAt(j)) = 1
            /\ \A k \in StampsAt(j) :
                  IF j = 1 THEN output[k].seg = 1 /\ output[k].step = 0
                  ELSE output[k].seg = j - 1 /\ output[k].step = output[k].num_steps

\* The call of the state made once more on the buffer it left.
Repeated ==
    IF LastCall.op = "stroke_bezier_texture_ball"
    THEN stroke_bezier_texture_ball(Fb(buffer), LastCall.points, LastCall.smoothness,
                                    LastCall.ball_texture, LastCall.spacing).fb
    ELSE fill_polygon_pattern(Fb(buffer), LastCall.points, LastCall.pattern)

\* C30: fill_polygon_pattern at any level and the stamping of
\* stroke_bezier_texture_ball never turn a black pixel white, and the same
\* call made again changes nothing further.
C30_InkOnly ==
    calls # <<>> =>
        /\ raised = "none"
        /\ \A p \in Pixels : PixelAt(prev, p[1], p[2]) => PixelAt(buffer, p[1], p[2])
        /\ Repeated.buf = buffer
        /\ Repeated.exc = "none"

\* A stroke over the striped buffer that inked white pixels.
C30_Witness ==
    /\ IsStroke
    /\ Len(output) >= 3
    /\ \E p \in Pixels : PixelAt(prev, p[1], p[2])
    /\ \E p \in Pixels : ~PixelAt(prev, p[1], p[2]) /\ PixelAt(buffer, p[1], p[2])
    /\ \E p \in Pixels : ~PixelAt(buffer, p[1], p[2])

(***************************************************************************)
(* Claims about the toolkit demo.                                          *)
(***************************************************************************)
\* C28: after any sequence of next_mode, set_mode(k) with any integer k,
\* toggle_animation and draw calls, mode is in 0..4: next_mode takes m to
\* (m + 1) mod 5, set_mode(k) sets mode to k only when 0 <= k < 5 and
\* otherwise leaves it, and no other call changes mode.
C28_ModeInRange ==
    /\ output.mode \in 0..4
    /\ raised = "none"
    /\ calls # <<>> =>
          output.mode =
              CASE LastCall.op = "next_mode" -> (input.mode + 1) % 5
                [] LastCall.op = "set_mode" ->
                      IF 0 <= LastCall.mode /\ LastCall.mode < 5 THEN LastCall.mode
                      ELSE input.mode
                [] OTHER -> input.mode

\* Mode 4 reached by set_mode(4), kept by set_mode(5), and wrapped to 0 by
\* next_mode.
C28_Witness ==
    /\ Len(calls) = 3
    /\ calls[1] = DemoCall("set_mode", 4)
    /\ calls[2] = DemoCall("set_mode", 5)
    /\ calls[3] = DemoCall("next_mode", 0)
    /\ input.mode = 4
    /\ output.mode = 0

====
